---------------------------- MODULE Spec2Model ----------------------------
(***************************************************************************)
(* The clone-transfer engine of CHIRP: the block-addressed protocol of the *)
(* Baofeng UV-5R driver (chirp/drivers/uv5r.py) and the sentinel-framed    *)
(* Icom clone protocol (chirp/icf.py).  Bytes are integers 0..255, byte    *)
(* strings are sequences of bytes, and a serial read that times out        *)
(* returns fewer bytes than asked for (the empty string when nothing       *)
(* came).                                                                  *)
(***************************************************************************)
EXTENDS Integers, Sequences, FiniteSets, TLC

VARIABLES
    driver,     \* which radio class is used: "uv5r" or "icf"
    op,         \* "in" (sync_in, download) or "out" (sync_out, upload)
    dev,        \* the device on the other end of the serial line
    pc,         \* position of the transfer in its code
    err,        \* the error the transfer raised ("" while none)
    mmap,       \* radio._mmap: the in-memory image (<<>> when None)
    mmap0,      \* the image radio._mmap held when the transfer began
    data,       \* the local image being filled by the download
    ident,      \* what _ident_radio returned
    magicIdx,   \* index into radio._idents of the next magic to try
    addr,       \* loop variable i of the block loops / addr of the icf loop
    fwver,      \* radio_version read live from the device
    tx,         \* everything written to the pipe, message by message
    reads,      \* every _read_block call: request, response, accepted or not
    status,     \* the cur value of every status callback, in order
    frames,     \* icf: the frames clone_to_radio has collected
    devPos,     \* icf: the address the device will send next in clone-out
    rng,        \* icf: index into radio.get_ranges() of the next range to send
    retval,     \* icf: what clone_to_radio returned ("none" before it returns)
    rdOp,       \* the read loop running: "Frame.read", "get_clone_resp", "command"
    rdLength,   \* get_clone_resp: the length argument (<<>> for None)
    rdLine,     \* the bytes the device will still send, in order
    rdBuf,      \* data / resp / result: what the loop has accumulated
    rdPc,       \* "loop" while the loop runs, then "returned" or "raised"
    rdErr,      \* the error the read loop raised
    rdEmpty,    \* how many reads of the loop returned no byte
    civOp,      \* CI-V: "radio" (an IcomCIVRadio object) or "probe" (probe_model)
    civEchoing, \* CI-V: whether the interface echoes what is written to it
    civRadio,   \* CI-V: the address of the radio on the bus (0 when none)
    civWillEcho,\* CI-V: self._willecho
    civPc,      \* CI-V: "init", "ready", "probe", "returned", "raised"
    civRx,      \* CI-V: the bytes received and not yet read
    civSends,   \* CI-V: every Frame.send: the frame and what its echo read took
    civOrder,   \* CI-V: the order in which CIV_MODELS.keys() yields the models
    civIdx,     \* CI-V: index into civOrder of the next model to probe
    civOut,     \* CI-V: what the last operation returned or raised
    civCalls,   \* CI-V: how many calls the radio object has served
    ctOut,      \* CloneThread: self.__out
    ctChunks,   \* CloneThread: how many chunks the transfer has
    ctPc,       \* CloneThread: "sync", "finish", "ended"
    ctIdx,      \* CloneThread: how many chunks are through
    ctInChunk,  \* CloneThread: a chunk's write or read is under way
    ctCancelled,\* CloneThread: self.__cancelled
    ctKill,     \* CloneThread: kill(CloneCancelledException) was called
    ctEmsg,     \* CloneThread: emsg: "unset", "None", or the exception caught
    ctClosed,   \* CloneThread: the radio's pipe is closed
    ctCback,    \* CloneThread: the callback was queued
    ctCancelAt, \* CloneThread: where the transfer was when cancel() was called
    ctCut,      \* CloneThread: where the transfer was when the exception arrived
    bfImage,    \* field view: the bytes of the image
    bfBefore,   \* field view: the bytes of the image before the write
    bfOff,      \* field view: the bit offset of the field
    bfWidth,    \* field view: the width of the field in bits
    bfValue,    \* field view: the value written, most significant bit first
    bfRead,     \* field view: the value read back
    bfPc,       \* field view: "set", "get", "done", "FieldOutOfBounds"
    valMem,     \* validation: the Memory that is validated
    valRf,      \* validation: the RadioFeatures it is validated against
    valStep,    \* validation: what required_step(mem.freq) gave
    valMsgs,    \* validation: what validate_memory(mem) returned
    valPc,      \* validation: "step", "validate", "done"
    saMem,      \* Memory.__setattr__: the attributes of the memory
    saBefore,   \* Memory.__setattr__: the attributes before the last assignment
    saName,     \* Memory.__setattr__: the name last assigned to
    saVal,      \* Memory.__setattr__: the value last assigned, in a tuple
    saPc,       \* Memory.__setattr__: "new", "returned", "ValueError", "ImmutableValueError"
    saCalls,    \* Memory.__setattr__: how many assignments were made
    edOp,       \* MemoryEditor: "edited" or "paste"
    edRf,       \* MemoryEditor: the features of the radio
    edReadOnly, \* MemoryEditor: self.read_only
    edList,     \* MemoryEditor: the memory edited, or the memories pasted
    edFilled,   \* MemoryEditor: for each row pasted to, whether it is filled
    edLog,      \* MemoryEditor: each memory validated: its messages, what was shown, whether it was written
    edJobs,     \* MemoryEditor: the memories of the set_memory jobs submitted
    edPc,       \* MemoryEditor: "call", "returned"
    rtQueue,    \* RadioThread: self.__queue
    rtCounter,  \* RadioThread: the value of the semaphore self.__counter
    rtEnabled,  \* RadioThread: self.__enabled
    rtRunlock,  \* RadioThread: who holds self.__runlock: "worker", "ext"
    rtPc,       \* RadioThread: where run() is: "top", "wait", "pop", "lock", "exec", "unlock", "exited"
    rtJob,      \* RadioThread: the job that run() popped, in a tuple
    rtMain,     \* the calling thread: "idle", or what it does next
    rtNext,     \* the id of the next job made
    rtExecuted, \* RadioThread: the jobs executed, in their order
    rtFlushed,  \* RadioThread: the ids of the jobs that flush() dropped
    rtStopped,  \* RadioThread: stop() was called
    rtFlushes,  \* RadioThread: how many times flush() was called
    rtLocks,    \* RadioThread: how many times lock() was called
    rtIdleCbs,  \* gobject: the callbacks added with idle_add and not yet run
    rtRadio,    \* the radio: the channel at each location
    rtRadio0,   \* the radio when the exchange began
    rtLocA,     \* _exchange_memories: loc_a
    rtLocB,     \* _exchange_memories: loc_b
    kwRadio,    \* Kenwood: the channel the radio stores at each location
    kwCache,    \* KenwoodLiveRadio: self.__memcache, <<>> where it has no key
    kwRet,      \* KenwoodLiveRadio: how the last call ended
    kwCalls,    \* KenwoodLiveRadio: the number of calls made
    kwLock,     \* kenwood_live.LOCK: the thread that holds it, 0 when free
    kwPc,       \* command(): where each thread is
    kwWire,     \* the serial line: who exchanged what, in order
    kwCmds      \* command(): the number of calls begun

cloneVars == <<driver, op, dev, pc, err, mmap, mmap0, data, ident, magicIdx,
               addr, fwver, tx, reads, status, frames, devPos, rng, retval>>
readVars == <<rdOp, rdLength, rdLine, rdBuf, rdPc, rdErr, rdEmpty>>

civVars == <<civOp, civEchoing, civRadio, civWillEcho, civPc, civRx, civSends,
             civOrder, civIdx, civOut, civCalls>>

ctVars == <<ctOut, ctChunks, ctPc, ctIdx, ctInChunk, ctCancelled, ctKill, ctEmsg,
            ctClosed, ctCback, ctCancelAt, ctCut>>

bfVars == <<bfImage, bfBefore, bfOff, bfWidth, bfValue, bfRead, bfPc>>

valVars == <<valMem, valRf, valStep, valMsgs, valPc>>

saVars == <<saMem, saBefore, saName, saVal, saPc, saCalls>>

edVars == <<edOp, edRf, edReadOnly, edList, edFilled, edLog, edJobs, edPc>>

rtVars == <<rtQueue, rtCounter, rtEnabled, rtRunlock, rtPc, rtJob, rtMain, rtNext, rtExecuted, rtFlushed, rtStopped, rtFlushes, rtLocks, rtIdleCbs, rtRadio, rtRadio0, rtLocA, rtLocB>>

kwVars == <<kwRadio, kwCache, kwRet, kwCalls, kwLock, kwPc, kwWire, kwCmds>>

\* the variables of everything but the two clone drivers
extVars == <<readVars, civVars, ctVars, bfVars, valVars, saVars, edVars, rtVars, kwVars>>

\* the variables of everything but one component
notReadVars == <<cloneVars, civVars, ctVars, bfVars, valVars, saVars, edVars, rtVars, kwVars>>
notCivVars == <<cloneVars, readVars, ctVars, bfVars, valVars, saVars, edVars, rtVars, kwVars>>
notCtVars == <<cloneVars, readVars, civVars, bfVars, valVars, saVars, edVars, rtVars, kwVars>>
notBfVars == <<cloneVars, readVars, civVars, ctVars, valVars, saVars, edVars, rtVars, kwVars>>
notValVars == <<cloneVars, readVars, civVars, ctVars, bfVars, saVars, edVars, rtVars, kwVars>>
notSaVars == <<cloneVars, readVars, civVars, ctVars, bfVars, valVars, edVars, rtVars, kwVars>>
notEdVars == <<cloneVars, readVars, civVars, ctVars, bfVars, valVars, saVars, rtVars, kwVars>>
notRtVars == <<cloneVars, readVars, civVars, ctVars, bfVars, valVars, saVars, edVars, kwVars>>
notKwVars == <<cloneVars, readVars, civVars, ctVars, bfVars, valVars, saVars, edVars, rtVars>>

vars == <<cloneVars, extVars>>

uv5rVars == <<ident, magicIdx, fwver>>
icfVars == <<frames, devPos, rng, retval>>

\* no read loop is running
ReadIdle ==
    /\ rdOp = "none" /\ rdLength = <<>> /\ rdLine = <<>> /\ rdBuf = <<>>
    /\ rdPc = "none" /\ rdErr = "" /\ rdEmpty = 0

\* no CI-V radio is in use
CivIdle ==
    /\ civOp = "none" /\ civEchoing = FALSE /\ civRadio = 0 /\ civWillEcho = FALSE
    /\ civPc = "none" /\ civRx = <<>> /\ civSends = <<>> /\ civOrder = <<>>
    /\ civIdx = 1 /\ civOut = "" /\ civCalls = 0

\* neither clone driver is in use
CloneIdle ==
    /\ driver = "none" /\ op = "none" /\ dev = 0 /\ pc = "none" /\ err = ""
    /\ mmap = <<>> /\ mmap0 = <<>> /\ data = <<>> /\ ident = <<>> /\ magicIdx = 1
    /\ addr = 0 /\ fwver = <<>> /\ tx = <<>> /\ reads = <<>> /\ status = <<>>
    /\ frames = <<>> /\ devPos = 0 /\ rng = 1 /\ retval = "none"

\* no clone thread exists
CtIdle ==
    /\ ctOut = FALSE /\ ctChunks = 0 /\ ctPc = "none" /\ ctIdx = 0
    /\ ctInChunk = FALSE /\ ctCancelled = FALSE /\ ctKill = FALSE
    /\ ctEmsg = "unset" /\ ctClosed = FALSE /\ ctCback = FALSE
    /\ ctCancelAt = "none" /\ ctCut = "none"

\* no field view is in use
BfIdle ==
    /\ bfImage = <<>> /\ bfBefore = <<>> /\ bfOff = 0 /\ bfWidth = 0
    /\ bfValue = <<>> /\ bfRead = <<>> /\ bfPc = "none"

\* nothing is being validated
ValIdle ==
    /\ valMem = <<>> /\ valRf = <<>> /\ valStep = <<>> /\ valMsgs = <<>>
    /\ valPc = "none"

\* no memory is being assigned to
SaIdle ==
    /\ saMem = <<>> /\ saBefore = <<>> /\ saName = "" /\ saVal = <<>>
    /\ saPc = "none" /\ saCalls = 0

\* no editor is in use
EdIdle ==
    /\ edOp = "none" /\ edRf = <<>> /\ edReadOnly = FALSE /\ edList = <<>>
    /\ edFilled = <<>> /\ edLog = <<>> /\ edJobs = <<>> /\ edPc = "none"

\* no radio thread exists
RtIdle ==
    /\ rtQueue = <<>> /\ rtCounter = 0 /\ rtEnabled = FALSE /\ rtRunlock = {}
    /\ rtPc = "none" /\ rtJob = <<>> /\ rtMain = "none" /\ rtNext = 0
    /\ rtExecuted = <<>> /\ rtFlushed = {} /\ rtStopped = FALSE /\ rtFlushes = 0
    /\ rtLocks = 0 /\ rtIdleCbs = <<>> /\ rtRadio = <<>> /\ rtRadio0 = <<>>
    /\ rtLocA = 0 /\ rtLocB = 0

\* no Kenwood live radio exists
KwIdle ==
    /\ kwRadio = <<>> /\ kwCache = <<>> /\ kwRet = "none" /\ kwCalls = 0
    /\ kwLock = 0 /\ kwPc = <<>> /\ kwWire = <<>> /\ kwCmds = 0

ExtIdle == ReadIdle /\ CivIdle /\ CtIdle /\ BfIdle /\ ValIdle /\ SaIdle /\ EdIdle /\ RtIdle /\ KwIdle

----------------------------------------------------------------------------
(* Byte strings *)

Min(a, b) == IF a < b THEN a ELSE b

\* Python's s[a:b] for 0 <= a, with the end clamped to the length
Slice(s, a, b) == SubSeq(s, a + 1, Min(b, Len(s)))

\* Python's "needle in hay" for strings
Contains(hay, needle) ==
    \E k \in 0..(Len(hay) - Len(needle)) :
        Slice(hay, k, k + Len(needle)) = needle

\* struct.pack(">BHB", cmd, a, size)
Pack_BHB(cmd, a, size) == <<cmd, (a \div 256) % 256, a % 256, size>>

\* struct.unpack(">BHB", answer)
Unpack_BHB(answer) ==
    [cmd |-> answer[1], addr |-> answer[2] * 256 + answer[3], length |-> answer[4]]

ACK == 6
NAK == CHOOSE b \in 0..255 : b # ACK
CmdS == 83
CmdX == 88

----------------------------------------------------------------------------
(* Program constants of the UV-5R driver *)

BlockSize == 64
UpBlockSize == 16
MainSize == 6144
AuxStart == 7872
AuxEnd == 8192
MemSize == 6152
IdentLen == 8
AuxOffset == 6152
FwVerFileStart == 6200
FwVerFileStop == 6214
FwBlock1 == 7872
FwBlock2 == 7936
SpecialBlockAddr == 3312

vhf_220_radio == <<2>>

\* "BFS", "BFB", "N5R-2", "BTS"
BASETYPE_UV5R == << <<66, 70, 83>>, <<66, 70, 66>>, <<78, 53, 82, 45, 50>>, <<66, 84, 83>> >>
\* BASETYPE_UV5R + "USA" + "US2S", "B82S", "BF82" + "BJ55" + "BF1" + "BFP3V3 B"
\* + "BFP3V3 F", "N5R-3", "N5R3"
BASETYPE_LIST ==
    BASETYPE_UV5R \o
    << <<85, 83, 65>>,
       <<85, 83, 50, 83>>, <<66, 56, 50, 83>>, <<66, 70, 56, 50>>,
       <<66, 74, 53, 53>>,
       <<66, 70, 49>>,
       <<66, 70, 80, 51, 86, 51, 32, 66>>,
       <<66, 70, 80, 51, 86, 51, 32, 70>>, <<78, 53, 82, 45, 51>>, <<78, 53, 82, 51>> >>

\* UV5R_MODEL_291, UV5R_MODEL_ORIG
UV5R_MODEL_291 == <<80, 187, 255, 32, 18, 7, 37>>
UV5R_MODEL_ORIG == <<80, 187, 255, 1, 37, 152, 77>>
Idents == <<UV5R_MODEL_291, UV5R_MODEL_ORIG>>

----------------------------------------------------------------------------
(* The devices on the line.  A device is a number; its memory is a        *)
(* function of the address, so that every block has its own content.      *)

\* 1: a UV-5R with firmware BFB297;  2: the same with firmware BFB298;
\* 3: a UV-5R whose special block differs;  4: an F-11 (firmware USA...);
\* 5: a device with an unknown firmware tag;  6: a 220 MHz upper band radio
Devices == 1..6

\* the 14-byte firmware version tag at device address 0x1EF0
DevFw(d) ==
    CASE d = 2 -> <<66, 70, 66, 50, 57, 56, 32, 32, 32, 32, 32, 32, 32, 32>>  \* "BFB298"
      [] d = 4 -> <<85, 83, 65, 49, 48, 49, 32, 32, 32, 32, 32, 32, 32, 32>>  \* "USA101" (F-11)
      [] d = 5 -> <<72, 78, 53, 82, 57, 57, 32, 32, 32, 32, 32, 32, 32, 32>>  \* "HN5R99" (unknown)
      [] OTHER -> <<66, 70, 66, 50, 57, 55, 32, 32, 32, 32, 32, 32, 32, 32>>  \* "BFB297"

\* the 7-byte special block at device address 0x0CF2
DevSpecial(d) ==
    IF d = 3 THEN <<1, 2, 3, 4, 5, 6, 7>> ELSE <<7, 6, 5, 4, 3, 2, 1>>

\* the 8 bytes the device answers to the ident request; byte 3 is the upper band
DevIdent(d) ==
    <<170, 48, 118, IF d = 6 THEN 2 ELSE 4, 0, 5, 32, 221>>

DevByte(d, a) ==
    IF a >= 7920 /\ a < 7934 THEN DevFw(d)[a - 7920 + 1]
    ELSE IF a >= 3314 /\ a < 3321 THEN DevSpecial(d)[a - 3314 + 1]
    ELSE ((a * 7) + (a \div 64) + d) % 256

DevChunk(d, start, size) == [k \in 1..size |-> DevByte(d, start + k - 1)]

\* range(start, stop, step) as the sequence of its values
Range(start, stop, step) ==
    [k \in 1..((stop - start + step - 1) \div step) |-> start + ((k - 1) * step)]

RECURSIVE ConcatAll(_)
ConcatAll(ss) == IF ss = <<>> THEN <<>> ELSE ss[1] \o ConcatAll(Tail(ss))

----------------------------------------------------------------------------
(* _read_block *)

\* What may come back for the request msg: the device's honest answer, and
\* the answers of a device or line that misbehaves.  ack is what the read
\* of one byte returns, hdr what the read of 4 bytes returns and chunk
\* what the read of 0x40 bytes returns.
DevAnswer(d, start, size, first) ==
    [ack |-> IF first THEN <<>> ELSE <<ACK>>, hdr |-> Pack_BHB(CmdX, start, size),
     chunk |-> DevChunk(d, start, size)]

DevAnswers(d, msg, first) ==
    LET start == msg[2] * 256 + msg[3]
        size == msg[4]
        good == DevAnswer(d, start, size, first)
    IN  {good,
         [good EXCEPT !.hdr = SubSeq(good.hdr, 1, 3)],
         [good EXCEPT !.hdr = <<>>],
         [good EXCEPT !.hdr = Pack_BHB(CmdS, start, size)],
         [good EXCEPT !.hdr = Pack_BHB(CmdX, (start + size) % 65536, size)],
         [good EXCEPT !.hdr = Pack_BHB(CmdX, start, size - 1)],
         [good EXCEPT !.hdr = Pack_BHB(CmdX, start, size - 1),
                      !.chunk = SubSeq(good.chunk, 1, size - 1)],
         [good EXCEPT !.chunk = <<>>],
         [good EXCEPT !.chunk = SubSeq(good.chunk, 1, size - 1)]}
        \cup (IF first THEN {}
              ELSE {[good EXCEPT !.ack = <<>>], [good EXCEPT !.ack = <<NAK>>]})

\* _read_block without the comparison of the answer's length byte
ReadBlockErrNoLength(start, size, first, r) ==
    IF ~first /\ r.ack # <<ACK>> THEN "Radio refused to send second block"
    ELSE IF Len(r.hdr) # 4 THEN "Radio refused to send block"
    ELSE IF \/ Unpack_BHB(r.hdr).cmd # CmdX
            \/ Unpack_BHB(r.hdr).addr # start THEN "Unknown response from radio"
    ELSE IF r.chunk = <<>> THEN "Radio did not send block"
    ELSE IF Len(r.chunk) # size THEN "Radio sent incomplete block"
    ELSE ""

\* _read_block(radio, start, size, first_command) against the answer r:
\* the error raised ("" when the block is returned) and the block
ReadBlockErr(start, size, first, r) ==
    IF ~first /\ r.ack # <<ACK>> THEN "Radio refused to send second block"
    ELSE IF Len(r.hdr) # 4 THEN "Radio refused to send block"
    ELSE IF \/ Unpack_BHB(r.hdr).cmd # CmdX
            \/ Unpack_BHB(r.hdr).addr # start
            \/ Unpack_BHB(r.hdr).length # size THEN "Unknown response from radio"
    ELSE IF r.chunk = <<>> THEN "Radio did not send block"
    ELSE IF Len(r.chunk) # size THEN "Radio sent incomplete block"
    ELSE ""

\* the log entries of one _read_block call
ReadLog(start, size, first, r) ==
    [start |-> start, size |-> size, first |-> first, resp |-> r,
     ok |-> ReadBlockErr(start, size, first, r) = ""]

\* what _read_block writes: the request, and the final ACK when it succeeds
ReadTx(start, size, first, r) ==
    <<[t |-> "S", msg |-> Pack_BHB(CmdS, start, size)]>> \o
    (IF ReadBlockErr(start, size, first, r) = "" THEN <<[t |-> "ack", msg |-> <<ACK>>]>> ELSE <<>>)

\* The ways "for i in addrs: d = _read_block(radio, i, 0x40); data += d" can
\* run against device d: the device answers the first n - 1 requests, which
\* _read_block accepts, and r is what comes back for the n-th; the loop ends
\* there with an error, or r is accepted and n is the last turn.  An accepted
\* call writes two messages and returns a block of 0x40 bytes.
ReadLoopRuns(d, addrs) ==
    LET good == [k \in 1..Len(addrs) |-> DevAnswer(d, addrs[k], BlockSize, FALSE)]
        logs == [k \in 1..Len(addrs) |-> ReadLog(addrs[k], BlockSize, FALSE, good[k])]
        txs == ConcatAll([k \in 1..Len(addrs) |-> ReadTx(addrs[k], BlockSize, FALSE, good[k])])
        chunks == ConcatAll([k \in 1..Len(addrs) |-> good[k].chunk])
        Run(n, r) ==
            [n |-> n,
             err |-> ReadBlockErr(addrs[n], BlockSize, FALSE, r),
             reads |-> SubSeq(logs, 1, n - 1) \o <<ReadLog(addrs[n], BlockSize, FALSE, r)>>,
             tx |-> SubSeq(txs, 1, 2 * (n - 1)) \o ReadTx(addrs[n], BlockSize, FALSE, r),
             data |-> SubSeq(chunks, 1, BlockSize * (n - 1)) \o
                      (IF ReadBlockErr(addrs[n], BlockSize, FALSE, r) = "" THEN r.chunk ELSE <<>>)]
    IN  UNION {{Run(n, r) : r \in {x \in DevAnswers(d, Pack_BHB(CmdS, addrs[n], BlockSize), FALSE) :
                                     /\ \A k \in 1..(n - 1) : logs[k].ok
                                     /\ ReadBlockErr(addrs[n], BlockSize, FALSE, x) = "" => n = Len(addrs)}}
               : n \in 1..Len(addrs)}

----------------------------------------------------------------------------
(* _do_ident and _ident_radio *)

\* what the device may do with a magic: ack1 is the byte read after the
\* magic, id the read of 8 bytes, ack2 the byte read after the PC's ACK
IdentAnswers(d) ==
    {[ack1 |-> <<ACK>>, id |-> DevIdent(d), ack2 |-> <<ACK>>],
     [ack1 |-> <<>>, id |-> <<>>, ack2 |-> <<>>],
     [ack1 |-> <<ACK>>, id |-> DevIdent(d), ack2 |-> <<>>],
     [ack1 |-> <<ACK>>, id |-> SubSeq(DevIdent(d), 1, 5), ack2 |-> <<ACK>>]}

\* _do_ident without the check of the second acknowledgement
DoIdentErrNoSecondAck(r) ==
    IF r.ack1 # <<ACK>> THEN "Radio did not respond" ELSE ""

DoIdentErr(r) ==
    IF r.ack1 # <<ACK>> THEN "Radio did not respond"
    ELSE IF r.ack2 # <<ACK>> THEN "Radio refused clone"
    ELSE ""

DoIdentTx(magic, r) ==
    <<[t |-> "magic", msg |-> magic, resp |-> r]>> \o
    (IF r.ack1 = <<ACK>> THEN <<[t |-> "2", msg |-> <<2>>], [t |-> "ack", msg |-> <<ACK>>]>>
     ELSE <<>>)

Fail(e) == pc' = "failed" /\ err' = e

\* the check _do_upload makes on the upper band right after _ident_radio
UpperBandErr(id, image) ==
    IF /\ (Slice(image, 3, 4) = vhf_220_radio \/ Slice(id, 3, 4) = vhf_220_radio)
       /\ Slice(image, 3, 4) # Slice(id, 3, 4)
    THEN "Image not supported by radio"
    ELSE ""

\* one turn of the loop of _ident_radio: _do_ident with the next magic;
\* the error of the last magic is raised when the list is exhausted
IdentRadio ==
    /\ driver = "uv5r" /\ pc = "ident" /\ magicIdx <= Len(Idents)
    /\ \E r \in IdentAnswers(dev) :
         /\ tx' = tx \o DoIdentTx(Idents[magicIdx], r)
         /\ magicIdx' = magicIdx + 1
         /\ IF DoIdentErr(r) = ""
            THEN /\ ident' = r.id
                 /\ data' = IF op = "in" THEN r.id ELSE data
                 /\ IF op = "out" /\ UpperBandErr(r.id, mmap) # ""
                    THEN Fail(UpperBandErr(r.id, mmap))
                    ELSE pc' = "fw1" /\ err' = err
            ELSE /\ UNCHANGED <<ident, data>>
                 /\ IF magicIdx = Len(Idents) THEN Fail(DoIdentErr(r))
                    ELSE UNCHANGED <<pc, err>>
    /\ UNCHANGED <<driver, op, dev, mmap, mmap0, addr, fwver, reads, status>>
    /\ UNCHANGED icfVars
    /\ UNCHANGED extVars

----------------------------------------------------------------------------
(* _get_radio_firmware_version, MODEL "UV-5R": two blocks, version = block[48:62] *)

FwBlock1Read ==
    /\ driver = "uv5r" /\ pc = "fw1"
    /\ \E r \in DevAnswers(dev, Pack_BHB(CmdS, FwBlock1, BlockSize), TRUE) :
         /\ reads' = Append(reads, ReadLog(FwBlock1, BlockSize, TRUE, r))
         /\ tx' = tx \o ReadTx(FwBlock1, BlockSize, TRUE, r)
         /\ IF ReadBlockErr(FwBlock1, BlockSize, TRUE, r) = ""
            THEN pc' = "fw2" /\ err' = err /\ fwver' = r.chunk
            ELSE Fail(ReadBlockErr(FwBlock1, BlockSize, TRUE, r)) /\ fwver' = fwver
    /\ UNCHANGED <<driver, op, dev, mmap, mmap0, data, ident, magicIdx, addr, status>>
    /\ UNCHANGED icfVars
    /\ UNCHANGED extVars

\* the second block, and the check _do_download makes on the version
FwBlock2ReadIn ==
    /\ driver = "uv5r" /\ pc = "fw2" /\ op = "in"
    /\ \E r \in DevAnswers(dev, Pack_BHB(CmdS, FwBlock2, BlockSize), FALSE) :
         /\ reads' = Append(reads, ReadLog(FwBlock2, BlockSize, FALSE, r))
         /\ tx' = tx \o ReadTx(FwBlock2, BlockSize, FALSE, r)
         /\ IF ReadBlockErr(FwBlock2, BlockSize, FALSE, r) # ""
            THEN Fail(ReadBlockErr(FwBlock2, BlockSize, FALSE, r)) /\ fwver' = fwver
            ELSE /\ fwver' = Slice(fwver \o r.chunk, 48, 62)
                 /\ IF \E k \in 1..Len(BASETYPE_UV5R) : Contains(fwver', BASETYPE_UV5R[k])
                    THEN pc' = "main" /\ err' = err
                    ELSE Fail("Incorrect 'Model' selected.")
    /\ UNCHANGED <<driver, op, dev, mmap, mmap0, data, ident, magicIdx, addr, status>>
    /\ UNCHANGED icfVars
    /\ UNCHANGED extVars

----------------------------------------------------------------------------
(* _do_download: the main block, the auxiliary block, and sync_in *)

\* "for i in range(0, stop, 0x40)" with its status calls, and the final
\* status call
DownloadMainLoop(stop) ==
    /\ driver = "uv5r" /\ pc = "main" /\ op = "in"
    /\ LET is == Range(0, stop, BlockSize)
       IN  \E run \in ReadLoopRuns(dev, is) :
             /\ reads' = reads \o run.reads
             /\ tx' = tx \o run.tx
             /\ data' = data \o run.data
             /\ addr' = is[run.n]
             /\ IF run.err # ""
                THEN Fail(run.err) /\ status' = status \o SubSeq(is, 1, run.n - 1)
                ELSE pc' = "aux" /\ err' = err /\ status' = status \o is \o <<MemSize>>
    /\ UNCHANGED <<driver, op, dev, mmap, mmap0, ident, magicIdx, fwver>>
    /\ UNCHANGED icfVars
    /\ UNCHANGED extVars

\* the main loop running over the whole image size, range(0, 0x1808, 0x40)
DownloadMainToMemSize == DownloadMainLoop(MemSize)

\* the main loop of _do_download: range(0, 0x1800, 0x40)
DownloadMain == DownloadMainLoop(MainSize)

\* the auxiliary block, range(0x1EC0, 0x2000, 0x40); after it _do_download
\* returns the image and sync_in stores it in radio._mmap
DownloadAux ==
    /\ driver = "uv5r" /\ pc = "aux" /\ op = "in"
    /\ LET is == Range(AuxStart, AuxEnd, BlockSize)
       IN  \E run \in ReadLoopRuns(dev, is) :
             /\ reads' = reads \o run.reads
             /\ tx' = tx \o run.tx
             /\ data' = data \o run.data
             /\ addr' = is[run.n]
             /\ IF run.err # ""
                THEN Fail(run.err) /\ mmap' = mmap
                ELSE pc' = "done" /\ err' = err /\ mmap' = data'
    /\ UNCHANGED <<driver, op, dev, mmap0, ident, magicIdx, fwver, status>>
    /\ UNCHANGED icfVars
    /\ UNCHANGED extVars

----------------------------------------------------------------------------
(* _do_upload *)

\* the second firmware block, and the check _do_upload makes on the version
FwBlock2ReadOut ==
    /\ driver = "uv5r" /\ pc = "fw2" /\ op = "out"
    /\ \E r \in DevAnswers(dev, Pack_BHB(CmdS, FwBlock2, BlockSize), FALSE) :
         /\ reads' = Append(reads, ReadLog(FwBlock2, BlockSize, FALSE, r))
         /\ tx' = tx \o ReadTx(FwBlock2, BlockSize, FALSE, r)
         /\ IF ReadBlockErr(FwBlock2, BlockSize, FALSE, r) # ""
            THEN Fail(ReadBlockErr(FwBlock2, BlockSize, FALSE, r)) /\ fwver' = fwver
            ELSE /\ fwver' = Slice(fwver \o r.chunk, 48, 62)
                 /\ IF \E k \in 1..Len(BASETYPE_LIST) : Contains(fwver', BASETYPE_LIST[k])
                    THEN pc' = "sb" /\ err' = err
                    ELSE Fail("Unsupported firmware version")
    /\ UNCHANGED <<driver, op, dev, mmap, mmap0, data, ident, magicIdx, addr, status>>
    /\ UNCHANGED icfVars
    /\ UNCHANGED extVars

\* _special_block_from_image
SpecialBlockFromImage(image) == Slice(image, 3322, 3329)

\* the comparison of the two special blocks with == in place of !=
SpecialBlockErrInverted(image, radio_special_block) ==
    IF SpecialBlockFromImage(image) = radio_special_block
    THEN "Image not supported by radio: special block"
    ELSE ""

\* the comparison of the two special blocks in _do_upload
SpecialBlockErr(image, radio_special_block) ==
    IF SpecialBlockFromImage(image) # radio_special_block
    THEN "Image not supported by radio: special block"
    ELSE ""

\* _firmware_version_from_image
FirmwareVersionFromImage(image) == Slice(image, FwVerFileStart, FwVerFileStop)

\* _get_radio_special_block and the comparison with the image's special block
SpecialBlockRead ==
    /\ driver = "uv5r" /\ pc = "sb" /\ op = "out"
    /\ \E r \in DevAnswers(dev, Pack_BHB(CmdS, SpecialBlockAddr, BlockSize), FALSE) :
         /\ reads' = Append(reads, ReadLog(SpecialBlockAddr, BlockSize, FALSE, r))
         /\ tx' = tx \o ReadTx(SpecialBlockAddr, BlockSize, FALSE, r)
         /\ IF ReadBlockErr(SpecialBlockAddr, BlockSize, FALSE, r) # ""
            THEN Fail(ReadBlockErr(SpecialBlockAddr, BlockSize, FALSE, r))
            ELSE IF SpecialBlockErr(mmap, Slice(r.chunk, 2, 9)) # ""
            THEN Fail(SpecialBlockErr(mmap, Slice(r.chunk, 2, 9)))
            ELSE pc' = "main" /\ err' = err
    /\ UNCHANGED <<driver, op, dev, mmap, mmap0, data, ident, magicIdx, addr, fwver, status>>
    /\ UNCHANGED icfVars
    /\ UNCHANGED extVars

\* what the read of the acknowledgement byte of _send_block may return
AckAnswers == {<<ACK>>, <<NAK>>, <<>>}

\* _send_block(radio, a, block): what is written, with the byte read after it
SendTx(a, block, ack) ==
    <<[t |-> "X", msg |-> Pack_BHB(CmdX, a, Len(block)) \o block, ack |-> ack]>>

\* _send_block that fails only when no byte came back
SendBlockErrOnlyMissing(ack) ==
    IF ack = <<>> THEN "Radio refused to accept block" ELSE ""

SendBlockErr(ack) ==
    IF ack # <<ACK>> THEN "Radio refused to accept block" ELSE ""

\* The ways "for i in ...: _send_block(radio, a, block)" can run over the
\* blocks sends: the device acknowledges the first n - 1 blocks and ack is
\* what the read after the n-th returns; the loop ends there with an error,
\* or ack is accepted and n is the last turn.
SendLoopRuns(sends) ==
    UNION {UNION {{[n |-> n,
                    err |-> SendBlockErr(ack),
                    tx |-> SubSeq(txs, 1, n - 1) \o
                           SendTx(sends[n].a, sends[n].block, ack)]
                   : ack \in {x \in AckAnswers :
                                /\ n > 1 => SendBlockErr(<<ACK>>) = ""
                                /\ SendBlockErr(x) = "" => n = Len(txs)}}
                  : n \in 1..Len(txs)}
           : txs \in {SubSeq([k \in 1..Len(sends) |->
                                 SendTx(sends[k].a, sends[k].block, <<ACK>>)[1]],
                             1, Len(sends))}}

\* for i in range(0x08, 0x1808, 0x10): _send_block(radio, i - 0x08, mmap[i:i + 0x10])
MainSends(image) ==
    LET is == Range(IdentLen, MemSize, UpBlockSize)
    IN  [k \in 1..Len(is) |->
            [i |-> is[k], a |-> is[k] - IdentLen,
             block |-> Slice(image, is[k], is[k] + UpBlockSize)]]

\* for i in range(0x1EC0, 0x2000, 0x10):
\*     addr = 0x1808 + (i - 0x1EC0); _send_block(radio, i, mmap[addr:addr + 0x10])
AuxSends(image) ==
    LET is == Range(AuxStart, AuxEnd, UpBlockSize)
    IN  [k \in 1..Len(is) |->
            [i |-> is[k], a |-> is[k],
             block |-> Slice(image, AuxOffset + (is[k] - AuxStart),
                             AuxOffset + (is[k] - AuxStart) + UpBlockSize)]]

\* the main loop with its status calls; after it the final status call, the
\* return for an image without auxiliary block and the comparison of the
\* firmware versions
\* an upload of the main region that takes the blocks it sends off the image
UploadMainConsumesImage ==
    /\ driver = "uv5r" /\ pc = "main" /\ op = "out"
    /\ LET is == Range(IdentLen, MemSize, UpBlockSize)
       IN  \E run \in SendLoopRuns(MainSends(mmap)) :
             /\ tx' = tx \o run.tx
             /\ mmap' = Slice(mmap, is[run.n], Len(mmap))
             /\ addr' = is[run.n]
             /\ IF run.err # ""
                THEN /\ Fail(run.err)
                     /\ status' = status \o SubSeq(is, 1, run.n - 1)
                ELSE /\ status' = status \o is \o <<MemSize>>
                     /\ IF Len(mmap) = MemSize
                        THEN pc' = "done" /\ err' = err
                        ELSE IF FirmwareVersionFromImage(mmap) # fwver
                        THEN Fail("Upload finished, but the 'Other Settings' could not be sent")
                        ELSE pc' = "aux" /\ err' = err
    /\ UNCHANGED <<driver, op, dev, mmap0, data, ident, magicIdx, fwver, reads>>
    /\ UNCHANGED icfVars
    /\ UNCHANGED extVars

UploadMain ==
    /\ driver = "uv5r" /\ pc = "main" /\ op = "out"
    /\ LET is == Range(IdentLen, MemSize, UpBlockSize)
       IN  \E run \in SendLoopRuns(MainSends(mmap)) :
             /\ tx' = tx \o run.tx
             /\ addr' = is[run.n]
             /\ IF run.err # ""
                THEN /\ Fail(run.err)
                     /\ status' = status \o SubSeq(is, 1, run.n - 1)
                ELSE /\ status' = status \o is \o <<MemSize>>
                     /\ IF Len(mmap) = MemSize
                        THEN pc' = "done" /\ err' = err
                        ELSE IF FirmwareVersionFromImage(mmap) # fwver
                        THEN Fail("Upload finished, but the 'Other Settings' could not be sent")
                        ELSE pc' = "aux" /\ err' = err
    /\ UNCHANGED <<driver, op, dev, mmap, mmap0, data, ident, magicIdx, fwver, reads>>
    /\ UNCHANGED icfVars
    /\ UNCHANGED extVars

\* the loop over the auxiliary block, which ends _do_upload
UploadAux ==
    /\ driver = "uv5r" /\ pc = "aux" /\ op = "out"
    /\ LET is == Range(AuxStart, AuxEnd, UpBlockSize)
       IN  \E run \in SendLoopRuns(AuxSends(mmap)) :
             /\ tx' = tx \o run.tx
             /\ addr' = is[run.n]
             /\ IF run.err # ""
                THEN Fail(run.err)
                ELSE pc' = "done" /\ err' = err
    /\ UNCHANGED <<driver, op, dev, mmap, mmap0, data, ident, magicIdx, fwver, reads, status>>
    /\ UNCHANGED icfVars
    /\ UNCHANGED extVars

----------------------------------------------------------------------------
(* chirp/icf.py: frames of the Icom clone protocol.  A frame on the wire  *)
(* is FE FE <dst> <src> <cmd> <payload> FD; the payload of a data frame   *)
(* is the hexadecimal text of its bytes.                                  *)

CMD_CLONE_OUT == 226
CMD_CLONE_IN == 227
CMD_CLONE_DAT == 228
CMD_CLONE_END == 229
CMD_ID == 224
CMD_MODEL == 225
CMD_RESULT == 230
AddrPC == 238
AddrRadio == 239

RECURSIVE SumSeq(_)
SumSeq(q) == IF q = <<>> THEN 0 ELSE q[1] + SumSeq(Tail(q))

\* bitwise operators on naturals
RECURSIVE BitXor(_, _)
BitXor(a, b) ==
    IF a = 0 THEN b
    ELSE IF b = 0 THEN a
    ELSE (((a % 2) + (b % 2)) % 2) + 2 * BitXor(a \div 2, b \div 2)

RECURSIVE BitAnd(_, _)
BitAnd(a, b) ==
    IF a = 0 \/ b = 0 THEN 0
    ELSE ((a % 2) * (b % 2)) + 2 * BitAnd(a \div 2, b \div 2)

\* one hexadecimal digit as the character "%X" prints
HexChar(n) == IF n < 10 THEN 48 + n ELSE 55 + n

\* "%02X" % val
Hex2(val) == <<HexChar(val \div 16), HexChar(val % 16)>>

\* the value int(c, 16) gives a digit character, -1 where it raises ValueError
HexVal(c) ==
    IF c >= 48 /\ c <= 57 THEN c - 48
    ELSE IF c >= 65 /\ c <= 70 THEN c - 55
    ELSE IF c >= 97 /\ c <= 102 THEN c - 87
    ELSE -1

\* the loop of send_clone_frame that builds hed from data
HexEncode(bytes) ==
    [k \in 1..(2 * Len(bytes)) |->
        IF k % 2 = 1 THEN HexChar(bytes[(k + 1) \div 2] \div 16)
        ELSE HexChar(bytes[k \div 2] % 16)]

\* the checksum without the + 1: the one's complement
ChecksumOnesComplement(cs) == BitAnd(BitXor(cs, 65535), 255)

\* cs = ((cs ^ 0xFFFF) + 1) & 0xFF
Checksum(cs) == BitAnd(BitXor(cs, 65535) + 1, 255)

\* send_clone_frame(pipe, cmd, data, raw, checksum): the frame written
SendCloneFrame(cmd, bytes, raw, checksum) ==
    <<254, 254, AddrPC, AddrRadio, cmd>>
      \o (IF raw THEN bytes ELSE HexEncode(bytes))
      \o (IF checksum THEN Hex2(Checksum(IF raw THEN 0 ELSE SumSeq(bytes))) ELSE <<>>)
      \o <<253>>

\* process_bcd: pairs of hexadecimal digits to bytes, up to the first pair
\* that is no hexadecimal number
ProcessBcd(bcddata) ==
    LET n == Len(bcddata) \div 2
        bad == {k \in 1..n : HexVal(bcddata[2 * k - 1]) < 0 \/ HexVal(bcddata[2 * k]) < 0}
        stop == IF bad = {} THEN n
                ELSE (CHOOSE k \in bad : \A j \in bad : k <= j) - 1
    IN  [k \in 1..stop |-> HexVal(bcddata[2 * k - 1]) * 16 + HexVal(bcddata[2 * k])]

\* mmap[pos] = value of a MemoryMap: the bytes are patched in place; a
\* write that does not fit raises IndexError and writes nothing
MemFits(m, pos, value) == pos + Len(value) <= Len(m)

MemSet(m, pos, value) ==
    [k \in 1..Len(m) |->
        IF k > pos /\ k <= pos + Len(value) THEN value[k - pos] ELSE m[k]]

\* the number of address bytes of a data frame: ">I" from 0x10000 bytes on
AddrLen(memsize) == IF memsize >= 65536 THEN 4 ELSE 2

\* struct.pack(">HB", i, size) or struct.pack(">IB", i, size)
PackChunkHeader(memsize, i, size) ==
    IF memsize >= 65536
    THEN <<(i \div 16777216) % 256, (i \div 65536) % 256, (i \div 256) % 256, i % 256, size>>
    ELSE <<(i \div 256) % 256, i % 256, size>>

\* process_data_frame(frame, mmap): ok is FALSE where struct.unpack or the
\* indexing of _data raises; otherwise the patched image and (saddr, saddr + bytes)
ProcessDataFrame(payload, m) ==
    LET d == ProcessBcd(payload)
        al == AddrLen(Len(m))
    IN  IF Len(d) < al + 1
        THEN [ok |-> FALSE, mmap |-> m, src |-> 0, dst |-> 0]
        ELSE LET saddr == IF al = 4
                          THEN ((d[1] * 256 + d[2]) * 256 + d[3]) * 256 + d[4]
                          ELSE d[1] * 256 + d[2]
                 bytes == d[al + 1]
                 value == Slice(d, al + 1, al + 1 + bytes)
             IN  [ok |-> TRUE,
                  mmap |-> IF MemFits(m, saddr, value) THEN MemSet(m, saddr, value) ELSE m,
                  src |-> saddr, dst |-> saddr + bytes]

\* RadioStream._process_frames: the frames the PC itself sent (the echo of
\* a one-wire line) are dropped
RECURSIVE ProcessFrames(_)
ProcessFrames(raw) ==
    IF raw = <<>> THEN <<>>
    ELSE IF raw[1].src = AddrPC /\ raw[1].dst = AddrRadio THEN ProcessFrames(Tail(raw))
    ELSE <<raw[1]>> \o ProcessFrames(Tail(raw))

----------------------------------------------------------------------------
(* The Icom radio class of the model and the devices on the line *)

IcfMemSize == 6
IcfBs == 2

IcfModel == <<49, 103, 0, 1>>
IcfEndFrame == <<73, 99, 111, 109>>
IcfRanges == << <<0, IcfMemSize - 1, IcfBs>>, <<IcfMemSize - 1, IcfMemSize, IcfBs>> >>

\* device 1 is the model the driver expects, device 2 another model
IcfDevices == {1, 2}
IcfDevModel(d) == IF d = 1 THEN IcfModel ELSE <<49, 85, 0, 1>>
IcfDevByte(d, a) == (100 + (37 * a) + d) % 256
IcfImage(d) == [k \in 1..IcfMemSize |-> IcfDevByte(d, k - 1)]

\* the images an upload may send
IcfNumImages == 6
IcfImages == {[k \in 1..IcfMemSize |-> ((53 * n) + (91 * k)) % 256] : n \in 1..IcfNumImages}

\* a frame as it arrives: pre is the two bytes in front of the addresses
Frame(src, dst, cmd, payload) ==
    [pre |-> <<254, 254>>, src |-> src, dst |-> dst, cmd |-> cmd, payload |-> payload]

\* line noise in place of a frame
Garbage == [pre |-> <<0, 0>>, src |-> 0, dst |-> 0, cmd |-> 0, payload |-> <<>>]

\* _process_frames raises InvalidDataError when the data read does not
\* start with FE FE
OutOfSync(raw) == raw # <<>> /\ raw[1].pre # <<254, 254>>

\* the data frame a device sends for the bytes at address a
DevDataFrame(a, bytes) ==
    LET chunk == PackChunkHeader(IcfMemSize, a, Len(bytes)) \o bytes
    IN  Frame(AddrRadio, AddrPC, CMD_CLONE_DAT,
              HexEncode(chunk) \o Hex2(Checksum(SumSeq(chunk))))

\* whether the checksum a received data frame carries fits its bytes
FrameChecksumOk(payload) ==
    /\ Len(ProcessBcd(payload)) * 2 = Len(payload)
    /\ Len(payload) > 0
    /\ SumSeq(ProcessBcd(payload)) % 256 = 0

\* what stream.get_frames() may find after the model request
ModelAnswers(d) ==
    LET echo == Frame(AddrPC, AddrRadio, CMD_ID, <<0, 0, 0, 0>>)
        model == Frame(AddrRadio, AddrPC, CMD_MODEL, IcfDevModel(d) \o <<0, 0>>)
    IN  {<<echo, model>>, <<model>>, <<echo>>, <<>>, <<model, model>>, <<Garbage>>}

\* the comparison of the model made on md[0:1] only
ModelErrFirstByte(raw) ==
    IF OutOfSync(raw) THEN "Out of sync with radio"
    ELSE IF Len(ProcessFrames(raw)) # 1 THEN "Unexpected response from radio"
    ELSE IF Slice(ProcessFrames(raw)[1].payload, 0, 1) # Slice(IcfModel, 0, 1)
    THEN "I can't talk to this model"
    ELSE ""

\* get_model_data and the comparison both clone functions make
ModelErr(raw) ==
    IF OutOfSync(raw) THEN "Out of sync with radio"
    ELSE IF Len(ProcessFrames(raw)) # 1 THEN "Unexpected response from radio"
    ELSE IF Slice(ProcessFrames(raw)[1].payload, 0, 4) # IcfModel
    THEN "I can't talk to this model"
    ELSE ""

\* the start of clone_from_radio and of clone_to_radio: the model request
\* and, for the expected model, the clone command
IcfGetModel ==
    /\ driver = "icf" /\ pc = "model"
    /\ \E raw \in ModelAnswers(dev) :
         /\ reads' = IF OutOfSync(raw) THEN reads ELSE reads \o ProcessFrames(raw)
         /\ IF ModelErr(raw) # ""
            THEN /\ Fail(ModelErr(raw))
                 /\ tx' = Append(tx, [t |-> "frame",
                                      msg |-> SendCloneFrame(CMD_ID, <<0, 0, 0, 0>>, TRUE, FALSE)])
                 /\ data' = data
            ELSE /\ pc' = "clone" /\ err' = err
                 /\ tx' = tx \o
                      <<[t |-> "frame", msg |-> SendCloneFrame(CMD_ID, <<0, 0, 0, 0>>, TRUE, FALSE)],
                        [t |-> "frame",
                         msg |-> SendCloneFrame(IF op = "in" THEN CMD_CLONE_OUT ELSE CMD_CLONE_IN,
                                                IcfModel, TRUE, FALSE)]>>
                 /\ data' = IF op = "in" THEN [k \in 1..IcfMemSize |-> 0] ELSE data
    /\ UNCHANGED <<driver, op, dev, mmap, mmap0, addr, status>>
    /\ UNCHANGED uv5rVars
    /\ UNCHANGED extVars
    /\ UNCHANGED icfVars

----------------------------------------------------------------------------
(* clone_from_radio *)

IcfMaxBatch == 2

\* one frame of the device in clone-out, by what happens to it: "good" is
\* the next block, "corrupt" the next block with a byte damaged on the
\* line, "skip" the block after a lost one, "trunc" a frame cut short,
\* "end" the end frame and "garbage" line noise
FrameKinds == {"good", "corrupt", "skip", "trunc", "end", "garbage"}

ChunkLen(a) == Min(IcfBs, IcfMemSize - a)

DevCanSend(kind, pos) ==
    CASE kind = "end" -> pos = IcfMemSize
      [] kind = "skip" -> pos + ChunkLen(pos) < IcfMemSize
      [] kind = "garbage" -> TRUE
      [] OTHER -> pos < IcfMemSize

DevFrameAddr(kind, pos) == IF kind = "skip" THEN pos + ChunkLen(pos) ELSE pos

DevPosAfter(kind, pos) ==
    IF kind = "end" THEN IcfMemSize + 1
    ELSE IF kind = "garbage" THEN pos
    ELSE DevFrameAddr(kind, pos) + ChunkLen(DevFrameAddr(kind, pos))

DevFrame(d, kind, pos) ==
    LET a == DevFrameAddr(kind, pos)
        bytes == [k \in 1..ChunkLen(a) |-> IcfDevByte(d, a + k - 1)]
        good == DevDataFrame(a, bytes)
    IN  CASE kind = "end" -> Frame(AddrRadio, AddrPC, CMD_CLONE_END, IcfEndFrame)
          [] kind = "garbage" -> Garbage
          [] kind = "corrupt" ->
                [good EXCEPT !.payload = [good.payload EXCEPT ![7] = HexChar(15), ![8] = HexChar(15)]]
          [] kind = "trunc" -> [good EXCEPT !.payload = SubSeq(good.payload, 1, 2)]
          [] OTHER -> good

\* the batches of frames one get_frames() call may return
RECURSIVE DevBatch(_, _, _)
DevBatch(d, kinds, pos) ==
    IF kinds = <<>> THEN <<>>
    ELSE <<DevFrame(d, kinds[1], pos)>> \o DevBatch(d, Tail(kinds), DevPosAfter(kinds[1], pos))

RECURSIVE DevBatchEnd(_, _)
DevBatchEnd(kinds, pos) ==
    IF kinds = <<>> THEN pos ELSE DevBatchEnd(Tail(kinds), DevPosAfter(kinds[1], pos))

RECURSIVE DevBatchOk(_, _)
DevBatchOk(kinds, pos) ==
    IF kinds = <<>> THEN TRUE
    ELSE DevCanSend(kinds[1], pos) /\ DevBatchOk(Tail(kinds), DevPosAfter(kinds[1], pos))

RECURSIVE KindSeqs(_)
KindSeqs(n) ==
    IF n = 0 THEN {<<>>}
    ELSE KindSeqs(n - 1) \cup {Append(q, k) : q \in KindSeqs(n - 1), k \in FrameKinds}

Batches == KindSeqs(IcfMaxBatch)

\* the for loop over the frames of one get_frames() call: st is
\* [ok, mmap, addr]; a frame that cannot be unpacked raises
RECURSIVE CloneFromFrames(_, _)
CloneFromFrames(fs, st) ==
    IF fs = <<>> \/ ~st.ok THEN st
    ELSE IF fs[1].cmd = CMD_CLONE_DAT
    THEN LET r == ProcessDataFrame(fs[1].payload, st.mmap)
         IN  CloneFromFrames(Tail(fs),
                 IF r.ok THEN [ok |-> TRUE, mmap |-> r.mmap, addr |-> r.dst]
                 ELSE [st EXCEPT !.ok = FALSE])
    ELSE CloneFromFrames(Tail(fs), st)

\* one turn of the while loop of clone_from_radio; when get_frames()
\* returns nothing the loop ends, the image is returned and sync_in stores it
IcfCloneFromStep ==
    /\ driver = "icf" /\ pc = "clone" /\ op = "in"
    /\ \E kinds \in Batches :
         /\ DevBatchOk(kinds, devPos)
         /\ devPos' = DevBatchEnd(kinds, devPos)
         /\ LET raw == DevBatch(dev, kinds, devPos)
                fs == ProcessFrames(raw)
                st == CloneFromFrames(fs, [ok |-> TRUE, mmap |-> data, addr |-> addr])
            IN  /\ reads' = IF OutOfSync(raw) THEN reads ELSE reads \o fs
                /\ IF OutOfSync(raw)
                   THEN /\ Fail("Out of sync with radio")
                        /\ UNCHANGED <<mmap, data, addr, status>>
                   ELSE IF fs = <<>>
                   THEN /\ pc' = "done" /\ mmap' = data
                        /\ UNCHANGED <<err, data, addr, status>>
                   ELSE IF ~st.ok
                   THEN /\ Fail("struct.error") /\ UNCHANGED <<mmap, data, addr, status>>
                   ELSE /\ data' = st.mmap /\ addr' = st.addr
                        /\ status' = Append(status, st.addr)
                        /\ UNCHANGED <<pc, err, mmap>>
    /\ UNCHANGED <<driver, op, dev, mmap0, tx, frames, rng, retval>>
    /\ UNCHANGED uv5rVars
    /\ UNCHANGED extVars

----------------------------------------------------------------------------
(* clone_to_radio *)

\* the chunks send_mem_chunk(radio, start, stop, bs) sends, in order
RECURSIVE SendMemChunk(_, _, _, _)
SendMemChunk(image, i, stop, bs) ==
    IF i >= stop THEN <<>>
    ELSE LET size == IF i + bs < stop THEN bs ELSE stop - i
             chunk == PackChunkHeader(IcfMemSize, i, size) \o Slice(image, i, i + size)
         IN  <<[t |-> "frame", msg |-> SendCloneFrame(CMD_CLONE_DAT, chunk, FALSE, TRUE)]>>
               \o SendMemChunk(image, i + bs, stop, bs)

\* status.cur of the callbacks of send_mem_chunk
RECURSIVE SendMemStatus(_, _, _)
SendMemStatus(i, stop, bs) ==
    IF i >= stop THEN <<>> ELSE <<i + bs>> \o SendMemStatus(i + bs, stop, bs)

\* what get_frames() may find after a range: nothing, the echo of the
\* PC's own frame, or a result frame of a device that gave up
RangeAnswers ==
    {<<>>,
     <<Frame(AddrPC, AddrRadio, CMD_CLONE_DAT, <<>>)>>,
     <<Frame(AddrRadio, AddrPC, CMD_RESULT, <<1>>)>>,
     <<Garbage>>}

\* one turn of the loop over radio.get_ranges()
IcfSendRange ==
    /\ driver = "icf" /\ pc = "clone" /\ op = "out" /\ rng <= Len(IcfRanges)
    /\ \E raw \in RangeAnswers :
         /\ tx' = tx \o SendMemChunk(mmap, IcfRanges[rng][1], IcfRanges[rng][2], IcfRanges[rng][3])
         /\ status' = status \o SendMemStatus(IcfRanges[rng][1], IcfRanges[rng][2], IcfRanges[rng][3])
         /\ IF OutOfSync(raw)
            THEN Fail("Out of sync with radio") /\ UNCHANGED <<frames, reads, rng>>
            ELSE /\ frames' = frames \o ProcessFrames(raw)
                 /\ reads' = reads \o ProcessFrames(raw)
                 /\ rng' = rng + 1
                 /\ UNCHANGED <<pc, err>>
    /\ UNCHANGED <<driver, op, dev, mmap, mmap0, data, addr, devPos, retval>>
    /\ UNCHANGED uv5rVars
    /\ UNCHANGED extVars

\* what get_frames(True) may find after the end frame
EndAnswers ==
    {<<>>,
     <<Frame(AddrPC, AddrRadio, CMD_CLONE_END, IcfEndFrame)>>,
     <<Frame(AddrPC, AddrRadio, CMD_CLONE_END, IcfEndFrame), Frame(AddrRadio, AddrPC, CMD_RESULT, <<0>>)>>,
     <<Frame(AddrRadio, AddrPC, CMD_RESULT, <<0>>)>>,
     <<Frame(AddrRadio, AddrPC, CMD_RESULT, <<1>>)>>,
     <<Frame(AddrRadio, AddrPC, CMD_RESULT, <<>>)>>,
     <<Garbage>>}

\* the end of clone_to_radio: the end frame, the result, and sync_out,
\* which drops what clone_to_radio returns
IcfCloneEnd ==
    /\ driver = "icf" /\ pc = "clone" /\ op = "out" /\ rng > Len(IcfRanges)
    /\ \E raw \in EndAnswers :
         /\ tx' = Append(tx, [t |-> "frame",
                              msg |-> SendCloneFrame(CMD_CLONE_END, IcfEndFrame, TRUE, FALSE)])
         /\ frames' = IF OutOfSync(raw) THEN frames ELSE frames \o ProcessFrames(raw)
         /\ reads' = IF OutOfSync(raw) THEN reads ELSE reads \o ProcessFrames(raw)
         /\ IF OutOfSync(raw)
            THEN Fail("Out of sync with radio") /\ retval' = retval
            ELSE IF frames' = <<>>
            THEN Fail("Did not get clone result from radio") /\ retval' = retval
            ELSE IF frames'[Len(frames')].payload = <<>>
            THEN Fail("IndexError") /\ retval' = retval
            ELSE /\ pc' = "done" /\ err' = err
                 /\ retval' = (frames'[Len(frames')].payload[1] = 0)
    /\ UNCHANGED <<driver, op, dev, mmap, mmap0, data, addr, status, devPos, rng>>
    /\ UNCHANGED uv5rVars
    /\ UNCHANGED extVars

----------------------------------------------------------------------------
(* The images a radio object may hold *)

\* the image a complete download from device d yields
Image(d) ==
    DevIdent(d) \o DevChunk(d, 0, MainSize) \o DevChunk(d, AuxStart, AuxEnd - AuxStart)

\* an image file of the old format, without the auxiliary block
OldImage(d) == SubSeq(Image(d), 1, MemSize)

\* a download starts with no image or with the image of an earlier download
DownloadScenarios ==
    {<<1, OldImage(2)>>, <<4, <<>> >>, <<5, OldImage(2)>>}

\* an upload sends the image of some radio to the device on the line
UploadScenarios ==
    {<<1, Image(1)>>, <<2, OldImage(1)>>, <<3, Image(1)>>, <<4, Image(1)>>,
     <<5, Image(1)>>, <<6, Image(1)>>, <<1, Image(6)>>}

InitUV5R(o) ==
    /\ driver = "uv5r"
    /\ op = o
    /\ \E sc \in (IF o = "in" THEN DownloadScenarios ELSE UploadScenarios) :
         dev = sc[1] /\ mmap = sc[2]
    /\ pc = "ident"
    /\ err = ""
    /\ mmap0 = mmap
    /\ data = <<>>
    /\ ident = <<>>
    /\ magicIdx = 1
    /\ addr = 0
    /\ fwver = <<>>
    /\ tx = <<>>
    /\ reads = <<>>
    /\ status = <<>>
    /\ frames = <<>>
    /\ devPos = 0
    /\ rng = 1
    /\ retval = "none"
    /\ ExtIdle

\* an Icom radio object: a download starts with no image or an old one,
\* an upload sends the image the object holds
InitIcf(o) ==
    /\ driver = "icf"
    /\ op = o
    /\ dev \in IcfDevices
    /\ mmap \in (IF o = "in" THEN {<<>>, IcfImage(2)} ELSE IcfImages)
    /\ pc = "model"
    /\ err = ""
    /\ mmap0 = mmap
    /\ data = <<>>
    /\ ident = <<>>
    /\ magicIdx = 1
    /\ addr = 0
    /\ fwver = <<>>
    /\ tx = <<>>
    /\ reads = <<>>
    /\ status = <<>>
    /\ frames = <<>>
    /\ devPos = 0
    /\ rng = 1
    /\ retval = "none"
    /\ ExtIdle

InitIn == InitUV5R("in") \/ InitIcf("in")
InitOut == InitUV5R("out") \/ InitIcf("out")
Init == InitIn \/ InitOut

NextIn ==
    \/ IdentRadio
    \/ FwBlock1Read
    \/ FwBlock2ReadIn
    \/ DownloadMain
    \/ DownloadAux
    \/ IcfGetModel
    \/ IcfCloneFromStep

NextOut ==
    \/ IdentRadio
    \/ FwBlock1Read
    \/ FwBlock2ReadOut
    \/ SpecialBlockRead
    \/ UploadMain
    \/ UploadAux
    \/ IcfGetModel
    \/ IcfSendRange
    \/ IcfCloneEnd

Next ==
    \/ IdentRadio
    \/ FwBlock1Read
    \/ FwBlock2ReadIn
    \/ DownloadMain
    \/ DownloadAux
    \/ FwBlock2ReadOut
    \/ SpecialBlockRead
    \/ UploadMain
    \/ UploadAux
    \/ IcfGetModel
    \/ IcfCloneFromStep
    \/ IcfSendRange
    \/ IcfCloneEnd

Spec == Init /\ [][Next]_vars
SpecIn == InitIn /\ [][NextIn]_vars
SpecOut == InitOut /\ [][NextOut]_vars

\* CloneThread.cancel while sync_out runs: the exception given to kill()
\* arrives in the upload, which ends there (sync_out of the UV-5R wraps every
\* exception that is not a RadioError into one)
CancelOut ==
    /\ op = "out" /\ pc \notin {"done", "failed", "cancelled"}
    /\ pc' = "cancelled"
    /\ err' = IF driver = "uv5r" THEN "Failed to communicate with radio"
                                ELSE "CloneCancelledException"
    /\ UNCHANGED <<driver, dev, op, mmap, mmap0, data, ident, magicIdx, addr, fwver,
                   tx, reads, status, frames, devPos, rng, retval>>
    /\ UNCHANGED extVars

\* uploads that may be cancelled
NextOutCancel == NextOut \/ CancelOut
SpecOutCancel == InitOut /\ [][NextOutCancel]_vars

\* sync_out on the radio object whose sync_in has just returned: the image
\* that is uploaded is the image that was downloaded, to the same device
UploadDownloaded ==
    /\ driver = "uv5r" /\ op = "in" /\ pc = "done"
    /\ op' = "out"
    /\ pc' = "ident"
    /\ magicIdx' = 1
    /\ mmap0' = mmap
    /\ UNCHANGED <<driver, dev, mmap, data, ident, addr, fwver, tx, reads, status, err>>
    /\ UNCHANGED icfVars
    /\ UNCHANGED extVars

NextInOut == Next \/ UploadDownloaded
SpecInOut == Init /\ [][NextInOut]_vars

----------------------------------------------------------------------------
(* The loops that read from the serial line until a terminator came:      *)
(* Frame.read (chirp/drivers/icomciv.py), get_clone_resp (chirp/icf.py)   *)
(* and command (chirp/kenwood_live.py).  A read of n bytes returns what   *)
(* arrived before its timeout: at most n bytes, possibly none.            *)

MaxLine == 3
MaxEmptyReads == 2
FrameEnd == 253
CarriageReturn == 13

\* the bytes a device may put on the line
LineBytes == {254, FrameEnd, CarriageReturn, 65}

RECURSIVE Lines(_)
Lines(n) ==
    IF n = 0 THEN {<<>>}
    ELSE Lines(n - 1) \cup {Append(l, b) : l \in {x \in Lines(n - 1) : Len(x) = n - 1}, b \in LineBytes}

\* s.endswith(chr(b))
EndsWith(s, b) == s # <<>> /\ s[Len(s)] = b

\* serial.read(n): the results the line allows, the empty one included
SerialReads(n) == {SubSeq(rdLine, 1, k) : k \in 0..Min(n, Len(rdLine))}

InitRead ==
    /\ CloneIdle /\ CivIdle /\ CtIdle /\ BfIdle /\ ValIdle /\ SaIdle /\ EdIdle /\ RtIdle /\ KwIdle
    /\ rdOp \in {"Frame.read", "get_clone_resp", "command"}
    /\ rdLength \in (IF rdOp = "get_clone_resp" THEN {<<>>, <<2>>} ELSE {<<>>})
    /\ rdLine \in Lines(MaxLine)
    /\ rdBuf = <<>>
    /\ rdPc = "loop"
    /\ rdErr = ""
    /\ rdEmpty = 0

\* what Frame.read does with the data once it ends with FD
FrameReadEnd(d) ==
    IF d = <<FrameEnd>> THEN [pc |-> "raised", err |-> "Radio reported error"]
    ELSE IF Len(Slice(d, 2, 4)) # 2 THEN [pc |-> "raised", err |-> "struct.error"]
    ELSE IF Len(d) < 6 THEN [pc |-> "raised", err |-> "IndexError"]
    ELSE [pc |-> "returned", err |-> ""]

\* one turn of the loop of Frame.read, with what follows the loop when the
\* turn ends it
FrameRead ==
    /\ rdOp = "Frame.read" /\ rdPc = "loop"
    /\ \E char \in SerialReads(1) :
         /\ rdLine' = SubSeq(rdLine, Len(char) + 1, Len(rdLine))
         /\ IF char = <<>>
            THEN /\ rdPc' = "raised" /\ rdErr' = "Timeout"
                 /\ rdEmpty' = rdEmpty + 1 /\ rdBuf' = rdBuf
            ELSE /\ rdBuf' = rdBuf \o char
                 /\ rdEmpty' = rdEmpty
                 /\ IF EndsWith(rdBuf', FrameEnd)
                    THEN rdPc' = FrameReadEnd(rdBuf').pc /\ rdErr' = FrameReadEnd(rdBuf').err
                    ELSE UNCHANGED <<rdPc, rdErr>>
    /\ UNCHANGED <<rdOp, rdLength, notReadVars>>

\* exit_criteria(buf, length) of get_clone_resp
ExitCriteria(buf, length) ==
    IF length = <<>> THEN EndsWith(buf, FrameEnd) ELSE Len(buf) = length[1]

\* one turn of "while not exit_criteria(resp, length): resp += pipe.read(1)"
GetCloneResp ==
    /\ rdOp = "get_clone_resp" /\ rdPc = "loop" /\ rdEmpty < MaxEmptyReads
    /\ \E char \in SerialReads(1) :
         /\ rdLine' = SubSeq(rdLine, Len(char) + 1, Len(rdLine))
         /\ rdBuf' = rdBuf \o char
         /\ rdEmpty' = IF char = <<>> THEN rdEmpty + 1 ELSE rdEmpty
         /\ rdPc' = IF ExitCriteria(rdBuf', rdLength) THEN "returned" ELSE "loop"
    /\ UNCHANGED <<rdOp, rdLength, rdErr, notReadVars>>

\* one turn of "while not result.endswith('\r'): result += s.read(8)" of
\* command
KenwoodCommand ==
    /\ rdOp = "command" /\ rdPc = "loop" /\ rdEmpty < MaxEmptyReads
    /\ \E got \in SerialReads(8) :
         /\ rdLine' = SubSeq(rdLine, Len(got) + 1, Len(rdLine))
         /\ rdBuf' = rdBuf \o got
         /\ rdEmpty' = IF got = <<>> THEN rdEmpty + 1 ELSE rdEmpty
         /\ rdPc' = IF EndsWith(rdBuf', CarriageReturn) THEN "returned" ELSE "loop"
    /\ UNCHANGED <<rdOp, rdLength, rdErr, notReadVars>>

NextRead == FrameRead \/ GetCloneResp \/ KenwoodCommand
SpecRead == InitRead /\ [][NextRead]_vars

----------------------------------------------------------------------------
(* chirp/drivers/icomciv.py: frames on a CI-V bus.  An interface that     *)
(* echoes hands every byte written back to the reader, in front of what   *)
(* the radio answers.                                                     *)

MaxCivCalls == 2
MaxLocation == 2
Controller == 224
CmdProbe == 25
CmdMem == 26
CmdNG == 250
Icom7200 == 118
Icom7000 == 112
Icom746 == 70

\* the model bytes of the keys of CIV_MODELS
CivModels == {Icom7200, Icom7000, Icom746}

\* the orders in which iterating over the dictionary may yield its keys
CivOrders ==
    {o \in [1..3 -> CivModels] : \A i, j \in 1..3 : i # j => o[i] # o[j]}

\* echo_test of _detect_echo
EchoTest == <<254, 254, Controller, Controller, CmdNG, FrameEnd>>

\* the bytes Frame.send writes
FrameRaw(src, dst, cmd, sub, payload) ==
    <<254, 254, src, dst, cmd, sub>> \o payload \o <<FrameEnd>>

\* MemFrame.set_location: struct.pack(">H", int("%04i" % loc, 16))
LocationData(loc) ==
    <<0, (16 * ((loc \div 10) % 10)) + (loc % 10)>>

\* what the radio on the bus may answer to a frame: nothing, or, when the
\* frame is addressed to it, its answer to the command
RadioReplies(raw) ==
    {<<>>} \cup
    (IF raw[3] # civRadio \/ civRadio = 0 THEN {}
     ELSE IF raw[5] = CmdProbe
          THEN {FrameRaw(Controller, civRadio, CmdProbe, 0, <<civRadio>>)}
     ELSE IF raw[5] = CmdMem
          THEN {FrameRaw(Controller, civRadio, CmdMem, 0, SubSeq(raw, 7, Len(raw) - 1) \o <<255>>),
                FrameRaw(Controller, civRadio, CmdMem, 0, SubSeq(raw, 7, Len(raw) - 1) \o <<1, 2, 3>>),
                <<254, 254, Controller, civRadio, CmdNG, FrameEnd>>}
     ELSE {})

\* serial.read(n) on the waiting bytes q: what it returns, and what it leaves
Take(q, n) == SubSeq(q, 1, Min(n, Len(q)))
Drop(q, n) == SubSeq(q, Min(n, Len(q)) + 1, Len(q))

\* what is waiting to be read once raw was written and the radio answered
AfterWrite(rx, raw, reply) ==
    rx \o (IF civEchoing THEN raw ELSE <<>>) \o reply

\* Frame.send(src, dst, serial, willecho) with the frame raw: the bytes
\* serial.read(len(raw)) takes when willecho is set, and what is left
FrameSend(rx, raw, willecho, reply) ==
    [raw |-> raw,
     echo |-> IF willecho THEN Take(AfterWrite(rx, raw, reply), Len(raw)) ELSE <<>>,
     rx |-> IF willecho
            THEN Drop(AfterWrite(rx, raw, reply), Len(raw))
            ELSE AfterWrite(rx, raw, reply)]

\* the index of the first FD in q, 0 when there is none
RECURSIVE FirstEnd(_, _)
FirstEnd(q, i) ==
    IF i > Len(q) THEN 0 ELSE IF q[i] = FrameEnd THEN i ELSE FirstEnd(q, i + 1)

\* Frame.read(serial) run to its end on the bytes waiting in q
FrameReadAll(q) ==
    IF FirstEnd(q, 1) = 0
    THEN [pc |-> "raised", err |-> "Timeout", payload |-> <<>>, rx |-> <<>>]
    ELSE [pc |-> FrameReadEnd(SubSeq(q, 1, FirstEnd(q, 1))).pc,
          err |-> FrameReadEnd(SubSeq(q, 1, FirstEnd(q, 1))).err,
          payload |-> SubSeq(q, 7, FirstEnd(q, 1) - 1),
          rx |-> SubSeq(q, FirstEnd(q, 1) + 1, Len(q))]

InitCiv ==
    /\ CloneIdle /\ ReadIdle /\ CtIdle /\ BfIdle /\ ValIdle /\ SaIdle /\ EdIdle /\ RtIdle /\ KwIdle
    /\ civOp \in {"radio", "probe"}
    /\ civEchoing \in BOOLEAN
    /\ civRadio \in CivModels \cup {0}
    /\ civWillEcho = FALSE
    /\ civPc = IF civOp = "radio" THEN "init" ELSE "probe"
    /\ civRx = <<>>
    /\ civSends = <<>>
    /\ civOrder \in (IF civOp = "probe" THEN CivOrders ELSE {<<>>})
    /\ civIdx = 1
    /\ civOut = ""
    /\ civCalls = 0

\* IcomCIVRadio.__init__: self._willecho = self._detect_echo()
CivDetectEcho ==
    /\ civOp = "radio" /\ civPc = "init"
    /\ civWillEcho' = (Take(AfterWrite(civRx, EchoTest, <<>>), 6) = EchoTest)
    /\ civRx' = Drop(AfterWrite(civRx, EchoTest, <<>>), 6)
    /\ civPc' = "ready"
    /\ UNCHANGED <<civOp, civEchoing, civRadio, civSends, civOrder, civIdx, civOut, civCalls>>
    /\ UNCHANGED notCivVars

\* get_raw_memory(number): _send_frame(f), then f.read(self.pipe)
CivGetRawMemory ==
    /\ civOp = "radio" /\ civPc = "ready" /\ civCalls < MaxCivCalls
    /\ \E number \in 1..MaxLocation :
       \E reply \in RadioReplies(FrameRaw(Icom7200, Controller, CmdMem, 0, LocationData(number))) :
       \E sent \in {FrameSend(civRx, FrameRaw(Icom7200, Controller, CmdMem, 0, LocationData(number)),
                              civWillEcho, reply)} :
         /\ civSends' = Append(civSends, [raw |-> sent.raw, echo |-> sent.echo])
         /\ civRx' = FrameReadAll(sent.rx).rx
         /\ civOut' = IF FrameReadAll(sent.rx).pc = "raised"
                      THEN FrameReadAll(sent.rx).err ELSE "returned"
    /\ civCalls' = civCalls + 1
    /\ UNCHANGED <<civOp, civEchoing, civRadio, civWillEcho, civPc, civOrder, civIdx>>
    /\ UNCHANGED notCivVars

\* one turn of the loop of probe_model: f.send(model, controller, ser),
\* f.read(ser) and what follows; after the last turn "Unsupported model"
CivProbeModel ==
    /\ civOp = "probe" /\ civPc = "probe" /\ civIdx <= Len(civOrder)
    /\ \E reply \in RadioReplies(FrameRaw(civOrder[civIdx], Controller, CmdProbe, 0, <<>>)) :
       \E sent \in {FrameSend(civRx, FrameRaw(civOrder[civIdx], Controller, CmdProbe, 0, <<>>),
                              TRUE, reply)} :
       \E got \in {FrameReadAll(sent.rx)} :
         /\ civSends' = Append(civSends, [raw |-> sent.raw, echo |-> sent.echo])
         /\ civRx' = got.rx
         /\ civIdx' = civIdx + 1
         /\ IF got.pc = "returned" /\ Len(got.payload) = 1
            THEN IF got.payload[1] \in CivModels
                 THEN civPc' = "returned" /\ civOut' = "model"
                 ELSE civPc' = "raised" /\ civOut' = "KeyError"
            ELSE IF got.pc = "returned" /\ got.payload # <<>>
            THEN civPc' = "raised" /\ civOut' = "Unknown response"
            ELSE IF got.pc = "raised" /\ got.err \notin {"Timeout", "Radio reported error"}
            THEN civPc' = "raised" /\ civOut' = got.err
            ELSE IF civIdx = Len(civOrder)
            THEN civPc' = "raised" /\ civOut' = "Unsupported model"
            ELSE UNCHANGED <<civPc, civOut>>
    /\ UNCHANGED <<civOp, civEchoing, civRadio, civWillEcho, civOrder, civCalls>>
    /\ UNCHANGED notCivVars

NextCiv == CivDetectEcho \/ CivGetRawMemory \/ CivProbeModel
SpecCiv == InitCiv /\ [][NextCiv]_vars

----------------------------------------------------------------------------
(* chirpui/clone.py: CloneThread.  run() is the worker thread, cancel() is *)
(* called from the user interface thread while the worker runs.            *)

MaxChunks == 3

\* where the transfer is: inside a chunk's write or read, or between chunks
Place(inChunk) == IF inChunk THEN "inside" ELSE "between"

\* a kill() whose exception arrives wherever the worker is
KillPointAnywhere(inChunk) == TRUE

\* KillableThread.kill: the places of a transfer at which a cancellation
\* that was asked for reaches the worker
KillPoint(inChunk) == ~inChunk

InitCt ==
    /\ CloneIdle /\ ReadIdle /\ CivIdle /\ BfIdle /\ ValIdle /\ SaIdle /\ EdIdle /\ RtIdle /\ KwIdle
    /\ ctOut \in BOOLEAN
    /\ ctChunks \in 1..MaxChunks
    /\ ctPc = "sync" /\ ctIdx = 0 /\ ctInChunk = FALSE
    /\ ctCancelled = FALSE /\ ctKill = FALSE /\ ctEmsg = "unset"
    /\ ctClosed = FALSE /\ ctCback = FALSE
    /\ ctCancelAt = "none" /\ ctCut = "none"

\* CloneThread.cancel
CloneThreadCancel ==
    /\ ctPc \in {"sync", "finish"} /\ ~ctCancelled
    /\ ctCancelled' = TRUE
    /\ ctKill' = TRUE
    /\ ctCancelAt' = IF ctPc = "sync" THEN Place(ctInChunk) ELSE "after"
    /\ UNCHANGED <<ctOut, ctChunks, ctPc, ctIdx, ctInChunk, ctEmsg, ctClosed, ctCback, ctCut>>
    /\ UNCHANGED notCtVars

\* sync_in / sync_out: the transfer of a chunk begins
SyncChunkStart ==
    /\ ctPc = "sync" /\ ~ctInChunk /\ ctIdx < ctChunks
    /\ ~(ctKill /\ KillPoint(ctInChunk))
    /\ ctInChunk' = TRUE
    /\ UNCHANGED <<ctOut, ctChunks, ctPc, ctIdx, ctCancelled, ctKill, ctEmsg, ctClosed,
                   ctCback, ctCancelAt, ctCut>>
    /\ UNCHANGED notCtVars

\* sync_in / sync_out: the transfer of a chunk ends, well or with an error
\* that run() catches
SyncChunkEnd ==
    /\ ctPc = "sync" /\ ctInChunk
    /\ ~(ctKill /\ KillPoint(ctInChunk))
    /\ ctInChunk' = FALSE
    /\ \/ ctIdx' = ctIdx + 1 /\ UNCHANGED <<ctPc, ctEmsg>>
       \/ ctPc' = "finish" /\ ctEmsg' = "RadioError" /\ UNCHANGED ctIdx
    /\ UNCHANGED <<ctOut, ctChunks, ctCancelled, ctKill, ctClosed, ctCback, ctCancelAt, ctCut>>
    /\ UNCHANGED notCtVars

\* sync_in / sync_out returns: emsg = None
SyncReturns ==
    /\ ctPc = "sync" /\ ~ctInChunk /\ ctIdx = ctChunks
    /\ ctPc' = "finish" /\ ctEmsg' = "None"
    /\ UNCHANGED <<ctOut, ctChunks, ctIdx, ctInChunk, ctCancelled, ctKill, ctClosed,
                   ctCback, ctCancelAt, ctCut>>
    /\ UNCHANGED notCtVars

\* the exception given to kill() arrives in the worker and run() catches it
KillArrives ==
    /\ ctPc = "sync" /\ ctKill /\ KillPoint(ctInChunk)
    /\ ctPc' = "finish" /\ ctEmsg' = "CloneCancelledException"
    /\ ctCut' = Place(ctInChunk)
    /\ ctInChunk' = FALSE
    /\ UNCHANGED <<ctOut, ctChunks, ctIdx, ctCancelled, ctKill, ctClosed, ctCback, ctCancelAt>>
    /\ UNCHANGED notCtVars

\* the end of run(): the pipe is closed, the callback is queued unless the
\* thread was cancelled
RunEnd ==
    /\ ctPc = "finish"
    /\ ctPc' = "ended"
    /\ ctClosed' = TRUE
    /\ ctCback' = ~ctCancelled
    /\ UNCHANGED <<ctOut, ctChunks, ctIdx, ctInChunk, ctCancelled, ctKill, ctEmsg,
                   ctCancelAt, ctCut>>
    /\ UNCHANGED notCtVars

NextCt ==
    CloneThreadCancel \/ SyncChunkStart \/ SyncChunkEnd \/ SyncReturns \/ KillArrives \/ RunEnd
SpecCt == InitCt /\ [][NextCt]_vars

----------------------------------------------------------------------------
(* Field views over an image: the fields that a layout such as MEM_FORMAT  *)
(* of the UV-5R declares (u8 unused1:3, isuhf:1, scode:4; ...).  A field   *)
(* is w bits at bit offset o of the image, most significant bit first; a   *)
(* value is written here as its w bits, most significant first, so that    *)
(* widths up to 32 need no 32-bit arithmetic.                              *)

BfImageLen == 5
MaxWidth == 32

\* the 8 bits of a byte, most significant first, and the byte of 8 bits
ByteBits(b) == [k \in 1..8 |-> (b \div (2 ^ (8 - k))) % 2]
BitsByte(bs) ==
    (128 * bs[1]) + (64 * bs[2]) + (32 * bs[3]) + (16 * bs[4]) +
    (8 * bs[5]) + (4 * bs[6]) + (2 * bs[7]) + bs[8]

\* the bytes that cover the field: the first and the last index (from 0)
FirstByte(o, w) == o \div 8
LastByte(o, w) == (o + w - 1) \div 8

\* the field does not lie within the image
FieldOutOfBounds(img, o, w) == o + w > 8 * Len(img)

\* a write that sets the other bits of the covering bytes to zero
SetFieldClearsNeighbours(img, o, w, v) ==
    [i \in 1..Len(img) |->
        IF i - 1 < FirstByte(o, w) \/ i - 1 > LastByte(o, w)
        THEN img[i]
        ELSE BitsByte([k \in 1..8 |->
                 IF (8 * (i - 1)) + (k - 1) >= o /\ (8 * (i - 1)) + (k - 1) < o + w
                 THEN v[(8 * (i - 1)) + (k - 1) - o + 1]
                 ELSE 0])]

\* writing the field: each covering byte is read, the bits of the field in it
\* are replaced, and the byte is written back
SetField(img, o, w, v) ==
    [i \in 1..Len(img) |->
        IF i - 1 < FirstByte(o, w) \/ i - 1 > LastByte(o, w)
        THEN img[i]
        ELSE BitsByte([k \in 1..8 |->
                 IF (8 * (i - 1)) + (k - 1) >= o /\ (8 * (i - 1)) + (k - 1) < o + w
                 THEN v[(8 * (i - 1)) + (k - 1) - o + 1]
                 ELSE ByteBits(img[i])[k]])]

\* reading the field: the covering bytes are put together, most significant
\* first, and shifted and masked down to the w bits of the field
GetField(img, o, w) ==
    [k \in 1..w |-> ByteBits(img[((o + k - 1) \div 8) + 1])[((o + k - 1) % 8) + 1]]

\* the images a field is written into
BfImages ==
    {[i \in 1..BfImageLen |-> 0], [i \in 1..BfImageLen |-> 255],
     [i \in 1..BfImageLen |-> IF i % 2 = 1 THEN 165 ELSE 60]}

\* values of w bits: none set, all set, every other one, the ends
BfValues(w) ==
    {[k \in 1..w |-> 0], [k \in 1..w |-> 1], [k \in 1..w |-> k % 2],
     [k \in 1..w |-> (k + 1) % 2], [k \in 1..w |-> IF k = 1 THEN 1 ELSE 0],
     [k \in 1..w |-> IF k = w THEN 1 ELSE 0]}

InitBf ==
    /\ CloneIdle /\ ReadIdle /\ CivIdle /\ CtIdle /\ ValIdle /\ SaIdle /\ EdIdle /\ RtIdle /\ KwIdle
    /\ bfImage \in BfImages
    /\ bfBefore = bfImage
    /\ bfOff \in 0..((8 * BfImageLen) - 1)
    /\ bfWidth \in 1..MaxWidth
    /\ bfValue \in BfValues(bfWidth)
    /\ bfRead = <<>>
    /\ bfPc = "set"

\* the field is assigned the value
BfSet ==
    /\ bfPc = "set"
    /\ IF FieldOutOfBounds(bfImage, bfOff, bfWidth)
       THEN bfPc' = "FieldOutOfBounds" /\ UNCHANGED bfImage
       ELSE bfPc' = "get" /\ bfImage' = SetField(bfImage, bfOff, bfWidth, bfValue)
    /\ UNCHANGED <<bfBefore, bfOff, bfWidth, bfValue, bfRead>>
    /\ UNCHANGED notBfVars

\* the field is read
BfGet ==
    /\ bfPc = "get"
    /\ bfRead' = GetField(bfImage, bfOff, bfWidth)
    /\ bfPc' = "done"
    /\ UNCHANGED <<bfImage, bfBefore, bfOff, bfWidth, bfValue>>
    /\ UNCHANGED notBfVars

NextBf == BfSet \/ BfGet
SpecBf == InitBf /\ [][NextBf]_vars

----------------------------------------------------------------------------
(* chirp/chirp_common.py: required_step and RadioFeatures.validate_memory. *)
(* Frequencies are in Hz; a tuning step, a float of kHz in the program,    *)
(* is written in Hz as well (5.0 is 5000, 6.25 is 6250).                   *)

MaxFreqIdx == 40

is_5_0(freq) == (freq % 5000) = 0
is_12_5(freq) == (freq % 12500) = 0
is_6_25(freq) == (freq % 6250) = 0
is_2_5(freq) == (freq % 2500) = 0

is_fractional_step(freq) == ~is_5_0(freq) /\ (is_12_5(freq) \/ is_6_25(freq))

\* required_step with the tests for 6.25 and 12.5 in the other order
required_step_6_25_first(freq) ==
    IF is_5_0(freq) THEN [raised |-> FALSE, step |-> 5000]
    ELSE IF is_6_25(freq) THEN [raised |-> FALSE, step |-> 6250]
    ELSE IF is_12_5(freq) THEN [raised |-> FALSE, step |-> 12500]
    ELSE IF is_2_5(freq) THEN [raised |-> FALSE, step |-> 2500]
    ELSE [raised |-> TRUE, step |-> 0]

\* required_step that asks for 12.5 kHz before it asks for 5.0 kHz
required_step_12_5_first(freq) ==
    IF is_12_5(freq) THEN [raised |-> FALSE, step |-> 12500]
    ELSE IF is_5_0(freq) THEN [raised |-> FALSE, step |-> 5000]
    ELSE IF is_6_25(freq) THEN [raised |-> FALSE, step |-> 6250]
    ELSE IF is_2_5(freq) THEN [raised |-> FALSE, step |-> 2500]
    ELSE [raised |-> TRUE, step |-> 0]

\* required_step: the step returned, or raised when InvalidDataError is
required_step(freq) ==
    IF is_5_0(freq) THEN [raised |-> FALSE, step |-> 5000]
    ELSE IF is_12_5(freq) THEN [raised |-> FALSE, step |-> 12500]
    ELSE IF is_6_25(freq) THEN [raised |-> FALSE, step |-> 6250]
    ELSE IF is_2_5(freq) THEN [raised |-> FALSE, step |-> 2500]
    ELSE [raised |-> TRUE, step |-> 0]

MODES == <<"WFM", "FM", "NFM", "AM", "NAM", "DV", "USB", "LSB", "CW", "RTTY",
           "DIG", "PKT", "NCW", "NCWR", "CWR", "P25">>
CROSS_MODES == <<"Tone->Tone", "Tone->DTCS", "DTCS->Tone", "DTCS->", "->Tone",
                 "->DTCS", "DTCS->DTCS">>
TUNING_STEPS == <<5000, 6250, 10000, 12500, 15000, 20000, 25000, 30000, 50000,
                  100000, 125000, 200000, 9000, 1000, 2500>>
CHARSET_UPPER_NUMERIC ==
    <<"A", "B", "C", "D", "E", "F", "G", "H", "I", "J", "K", "L", "M", "N", "O",
      "P", "Q", "R", "S", "T", "U", "V", "W", "X", "Y", "Z", " ", "1", "2", "3",
      "4", "5", "6", "7", "8", "9", "0">>

\* x in l, for a list l
InList(x, l) == \E k \in 1..Len(l) : l[k] = x

\* Memory(): the record as constructed
DefaultMemory ==
    [freq |-> 0, number |-> 0, extd_number |-> "", name |-> <<>>, tmode |-> "",
     cross_mode |-> "Tone->Tone", dtcs_polarity |-> "NN", power |-> "",
     duplex |-> "", mode |-> "FM", tuning_step |-> 5000, skip |-> "",
     immutable |-> <<>>]

\* RadioFeatures(): the feature set as constructed
DefaultFeatures ==
    [has_infinite_number |-> FALSE, has_nostep_tuning |-> FALSE,
     has_dtcs_polarity |-> TRUE, valid_modes |-> MODES, valid_tmodes |-> <<>>,
     valid_duplexes |-> <<"", "+", "-">>, valid_tuning_steps |-> TUNING_STEPS,
     valid_bands |-> <<>>, valid_power_levels |-> <<>>,
     valid_characters |-> CHARSET_UPPER_NUMERIC, valid_cross_modes |-> CROSS_MODES,
     valid_dtcs_pols |-> <<"NN", "RN", "NR", "RR">>, valid_special_chans |-> <<>>,
     memory_bounds |-> <<0, 1>>, valid_skips |-> <<"", "S">>]

\* a ValidationError, a ValidationWarning or a plain string
Message(cls, text, arg) == [cls |-> cls, text |-> text, arg |-> <<arg>>]

\* the first character of name that is not in chars, or <<>>
RECURSIVE BadCharacter(_, _)
BadCharacter(name, chars) ==
    IF name = <<>> THEN <<>>
    ELSE IF ~InList(Head(name), chars) THEN <<Head(name)>>
    ELSE BadCharacter(Tail(name), chars)

\* some band of bands holds freq
InBands(freq, bands) == \E k \in 1..Len(bands) : bands[k][1] <= freq /\ freq < bands[k][2]

\* a test of the mode against the list of all modes
mode_messages_all_modes(rf, mem) ==
    IF MODES # <<>> /\ ~InList(mem.mode, MODES)
    THEN <<Message("ValidationError", "Mode %s not supported", mem.mode)>>
    ELSE <<>>

\* validate_memory: the test of the mode
mode_messages(rf, mem) ==
    IF rf.valid_modes # <<>> /\ ~InList(mem.mode, rf.valid_modes)
    THEN <<Message("ValidationError", "Mode %s not supported", mem.mode)>>
    ELSE <<>>

\* a test of the required step that does not look at has_nostep_tuning
required_step_messages_always(rf, mem) ==
    IF rf.valid_tuning_steps # <<>>
    THEN IF required_step(mem.freq).raised
         THEN <<Message("str", "Unable to calculate the required tuning step for %i.%5i",
                        mem.freq)>>
         ELSE IF ~InList(required_step(mem.freq).step, rf.valid_tuning_steps)
         THEN <<Message("ValidationError", "Frequency requires %.2fkHz step",
                        required_step(mem.freq).step)>>
         ELSE <<>>
    ELSE <<>>

\* validate_memory: the test of the step that the frequency requires
required_step_messages(rf, mem) ==
    IF rf.valid_tuning_steps # <<>> /\ ~rf.has_nostep_tuning
    THEN IF required_step(mem.freq).raised
         THEN <<Message("str", "Unable to calculate the required tuning step for %i.%5i",
                        mem.freq)>>
         ELSE IF ~InList(required_step(mem.freq).step, rf.valid_tuning_steps)
         THEN <<Message("ValidationError", "Frequency requires %.2fkHz step",
                        required_step(mem.freq).step)>>
         ELSE <<>>
    ELSE <<>>

\* RadioFeatures.validate_memory(mem) of the feature set rf
validate_memory(rf, mem) ==
    (IF /\ ~rf.has_infinite_number
        /\ (mem.number < rf.memory_bounds[1] \/ mem.number > rf.memory_bounds[2])
        /\ ~InList(mem.extd_number, rf.valid_special_chans)
     THEN <<Message("ValidationWarning", "Location %i is out of range", mem.number)>>
     ELSE <<>>)
    \o mode_messages(rf, mem)
    \o (IF rf.valid_tmodes # <<>> /\ ~InList(mem.tmode, rf.valid_tmodes)
        THEN <<Message("ValidationError", "Tone mode %s not supported", mem.tmode)>>
        ELSE IF /\ mem.tmode = "Cross"
                /\ rf.valid_cross_modes # <<>>
                /\ ~InList(mem.cross_mode, rf.valid_cross_modes)
        THEN <<Message("ValidationError", "Cross tone mode %s not supported", mem.cross_mode)>>
        ELSE <<>>)
    \o (IF rf.has_dtcs_polarity /\ ~InList(mem.dtcs_polarity, rf.valid_dtcs_pols)
        THEN <<Message("ValidationError", "DTCS Polarity %s not supported", mem.dtcs_polarity)>>
        ELSE <<>>)
    \o (IF rf.valid_duplexes # <<>> /\ ~InList(mem.duplex, rf.valid_duplexes)
        THEN <<Message("ValidationError", "Duplex %s not supported", mem.duplex)>>
        ELSE <<>>)
    \o (IF /\ rf.valid_tuning_steps # <<>>
           /\ ~InList(mem.tuning_step, rf.valid_tuning_steps)
           /\ ~rf.has_nostep_tuning
        THEN <<Message("ValidationError", "Tuning step %.2f not supported", mem.tuning_step)>>
        ELSE <<>>)
    \o (IF rf.valid_bands # <<>> /\ ~InBands(mem.freq, rf.valid_bands)
        THEN <<Message("ValidationError", "Frequency {freq} is out of supported range", mem.freq)>>
        ELSE <<>>)
    \o (IF /\ mem.power # ""
           /\ rf.valid_power_levels # <<>>
           /\ ~InList(mem.power, rf.valid_power_levels)
        THEN <<Message("ValidationWarning", "Power level %s not supported", mem.power)>>
        ELSE <<>>)
    \o required_step_messages(rf, mem)
    \o (IF rf.valid_characters # <<>> /\ BadCharacter(mem.name, rf.valid_characters) # <<>>
        THEN <<Message("ValidationWarning", "Name character `%s' not supported",
                       BadCharacter(mem.name, rf.valid_characters)[1])>>
        ELSE <<>>)

\* the frequencies validated: a grid of 1.25 kHz from 446 MHz, and 0
Freqs == {0} \cup {446000000 + (1250 * k) : k \in 0..MaxFreqIdx}

\* the memories validated: Memory() with some of its fields set
Memories ==
    {[DefaultMemory EXCEPT !.freq = f, !.mode = m, !.tuning_step = ts,
                           !.duplex = d, !.number = n, !.name = nm] :
        f \in Freqs, m \in {"FM", "DV"}, ts \in {5000, 6250},
        d \in {"", "split"}, n \in {0, 5}, nm \in {<<>>, <<"a">>}}

\* the feature sets validated against: RadioFeatures() with some settings
FeatureSets ==
    {[DefaultFeatures EXCEPT !.valid_modes = vm, !.valid_tuning_steps = vs,
                             !.has_nostep_tuning = ns, !.valid_bands = vb] :
        vm \in {MODES, <<"FM", "AM">>, <<>>},
        vs \in {TUNING_STEPS, <<5000, 10000, 25000>>, <<>>},
        ns \in BOOLEAN,
        vb \in {<<>>, <<<<400000000, 446020000>>>>}}

\* memories and feature sets that differ in the attributes with a declared
\* enumeration: mode, duplex, tuning step, skip and power (None is "")
AttrMemories ==
    {[DefaultMemory EXCEPT !.freq = f, !.mode = m, !.tuning_step = ts,
                           !.duplex = d, !.skip = sk, !.power = pw] :
        f \in {0, 446006250}, m \in {"FM", "DV"}, ts \in {5000, 6250},
        d \in {"", "split"}, sk \in {"", "P"}, pw \in {"", "High", "Turbo"}}

AttrFeatureSets ==
    {[DefaultFeatures EXCEPT !.valid_modes = vm, !.valid_tuning_steps = vs,
                             !.has_nostep_tuning = ns, !.valid_duplexes = vd,
                             !.valid_skips = vk, !.valid_power_levels = vp] :
        vm \in {<<"FM", "AM">>, <<>>},
        vs \in {<<5000, 10000, 25000>>, <<>>},
        ns \in BOOLEAN,
        vd \in {<<"", "+", "-">>, <<>>},
        vk \in {<<"", "S">>, <<>>},
        vp \in {<<"High", "Low">>, <<>>}}

InitValAttr ==
    /\ CloneIdle /\ ReadIdle /\ CivIdle /\ CtIdle /\ BfIdle /\ SaIdle /\ EdIdle /\ RtIdle /\ KwIdle
    /\ valMem \in AttrMemories
    /\ valRf \in AttrFeatureSets
    /\ valStep = <<>>
    /\ valMsgs = <<>>
    /\ valPc = "step"

InitVal ==
    /\ CloneIdle /\ ReadIdle /\ CivIdle /\ CtIdle /\ BfIdle /\ SaIdle /\ EdIdle /\ RtIdle /\ KwIdle
    /\ valMem \in Memories
    /\ valRf \in FeatureSets
    /\ valStep = <<>>
    /\ valMsgs = <<>>
    /\ valPc = "step"

\* required_step(mem.freq) is called
RequiredStepCall ==
    /\ valPc = "step"
    /\ valStep' = <<required_step(valMem.freq)>>
    /\ valPc' = "validate"
    /\ UNCHANGED <<valMem, valRf, valMsgs>>
    /\ UNCHANGED notValVars

\* rf.validate_memory(mem) is called
ValidateMemoryCall ==
    /\ valPc = "validate"
    /\ valMsgs' = validate_memory(valRf, valMem)
    /\ valPc' = "done"
    /\ UNCHANGED <<valMem, valRf, valStep>>
    /\ UNCHANGED notValVars

NextVal == RequiredStepCall \/ ValidateMemoryCall
SpecVal == InitVal /\ [][NextVal]_vars
SpecValAttr == InitValAttr /\ [][NextVal]_vars

----------------------------------------------------------------------------
(* chirp/chirp_common.py: Memory.__setattr__, every assignment mem.x = v.  *)

MaxAssignments == 2

TONE_MODES == <<"", "Tone", "TSQL", "DTCS", "DTCS-R", "TSQL-R", "Cross">>
SKIP_VALUES == <<"", "S", "P">>

\* Memory._valid_map, for the attributes of the memories here
ValidMap ==
    [tmode |-> TONE_MODES, dtcs_polarity |-> <<"NN", "NR", "RN", "RR">>,
     cross_mode |-> CROSS_MODES, mode |-> MODES,
     duplex |-> <<"", "+", "-", "split", "off">>, skip |-> SKIP_VALUES]

\* an assignment that stores the value before it looks at the valid list
setattr_stores_first(mem, name, val) ==
    IF name \notin DOMAIN mem
    THEN [pc |-> "ValueError", mem |-> mem]
    ELSE IF InList(name, mem.immutable)
    THEN [pc |-> "ImmutableValueError", mem |-> mem]
    ELSE IF name \in DOMAIN ValidMap /\ ~InList(val, ValidMap[name])
    THEN [pc |-> "ValueError", mem |-> [mem EXCEPT ![name] = val]]
    ELSE [pc |-> "returned", mem |-> [mem EXCEPT ![name] = val]]

\* Memory.__setattr__(name, val): how it ends and the memory after it
setattr(mem, name, val) ==
    IF name \notin DOMAIN mem
    THEN [pc |-> "ValueError", mem |-> mem]
    ELSE IF InList(name, mem.immutable)
    THEN [pc |-> "ImmutableValueError", mem |-> mem]
    ELSE IF name \in DOMAIN ValidMap /\ ~InList(val, ValidMap[name])
    THEN [pc |-> "ValueError", mem |-> mem]
    ELSE [pc |-> "returned", mem |-> [mem EXCEPT ![name] = val]]

\* the assignments made: the name and the value
Assignments ==
    <<[name |-> "mode", val |-> "DV"], [name |-> "mode", val |-> "SSB"],
      [name |-> "duplex", val |-> "split"], [name |-> "duplex", val |-> "x"],
      [name |-> "skip", val |-> "P"], [name |-> "skip", val |-> "Q"],
      [name |-> "tmode", val |-> "Tone"], [name |-> "tmode", val |-> "tone"],
      [name |-> "freq", val |-> 146520000], [name |-> "name", val |-> <<"A">>],
      [name |-> "bogus", val |-> "x"], [name |-> "dv_code", val |-> 5],
      [name |-> "immutable", val |-> <<"mode">>],
      [name |-> "immutable", val |-> <<"freq", "skip", "immutable">>]>>

InitSa ==
    /\ CloneIdle /\ ReadIdle /\ CivIdle /\ CtIdle /\ BfIdle /\ ValIdle /\ EdIdle /\ RtIdle /\ KwIdle
    /\ saMem \in {[DefaultMemory EXCEPT !.mode = m, !.immutable = im] :
                    m \in {"FM", "AM"}, im \in {<<>>, <<"duplex">>}}
    /\ saBefore = saMem
    /\ saName = "" /\ saVal = <<>> /\ saPc = "new" /\ saCalls = 0

\* mem.name = val
SetAttr ==
    /\ saPc # "none" /\ saCalls < MaxAssignments
    /\ \E i \in 1..Len(Assignments) :
         /\ saName' = Assignments[i].name
         /\ saVal' = <<Assignments[i].val>>
         /\ saMem' = setattr(saMem, Assignments[i].name, Assignments[i].val).mem
         /\ saPc' = setattr(saMem, Assignments[i].name, Assignments[i].val).pc
    /\ saBefore' = saMem
    /\ saCalls' = saCalls + 1
    /\ UNCHANGED notSaVars

NextSa == SetAttr
SpecSa == InitSa /\ [][NextSa]_vars

----------------------------------------------------------------------------
(* chirpui/memedit.py: MemoryEditor.edited and _paste_selection, from the  *)
(* validation of a memory to the set_memory job.                           *)

MaxPaste == 2

\* what became of a memory that was validated
Outcome(mem, msgs, written) ==
    [mem |-> mem, msgs |-> msgs, shown |-> IF msgs # <<>> THEN msgs ELSE <<>>,
     written |-> written]

\* "if msgs:" of both handlers: the memory is turned away
Blocked(msgs) == msgs # <<>>

\* the loop of _paste_selection over mems from row loc on; ow are the answers
\* to "Overwrite?" (1 yes, 2 no, 3 cancel, 4 all), inc those to
\* "Incompatible Memory" (1 ok, 2 cancel), always is the flag of "All"
RECURSIVE PasteLoop(_, _, _, _, _, _, _)
PasteLoop(rf, mems, filled, ow, inc, loc, always) ==
    IF mems = <<>> THEN <<>>
    ELSE IF Head(filled) /\ ~always /\ Head(ow) = 3 THEN <<>>
    ELSE IF Head(filled) /\ ~always /\ Head(ow) = 2
    THEN PasteLoop(rf, Tail(mems), Tail(filled), Tail(ow), Tail(inc), loc + 1, always)
    ELSE LET mem == [Head(mems) EXCEPT !.number = loc]
             msgs == validate_memory(rf, mem)
             all == always \/ (Head(filled) /\ Head(ow) = 4)
         IN  IF Blocked(msgs)
             THEN <<Outcome(mem, msgs, FALSE)>> \o
                  (IF Head(inc) = 2 THEN <<>>
                   ELSE PasteLoop(rf, Tail(mems), Tail(filled), Tail(ow), Tail(inc),
                                  loc + 1, all))
             ELSE <<Outcome(mem, msgs, TRUE)>> \o
                  PasteLoop(rf, Tail(mems), Tail(filled), Tail(ow), Tail(inc), loc + 1, all)

\* the memories of the outcomes that were written, in their order
RECURSIVE Written(_)
Written(log) ==
    IF log = <<>> THEN <<>>
    ELSE (IF Head(log).written THEN <<Head(log).mem>> ELSE <<>>) \o Written(Tail(log))

\* the memories a user edits or pastes
EdMemories ==
    {[DefaultMemory EXCEPT !.mode = m, !.power = pw, !.name = nm] :
        m \in {"FM", "DV"}, pw \in {"", "High", "Turbo"}, nm \in {<<>>, <<"a">>}}

\* all lists of 1 to n of them
RECURSIVE EdLists(_)
EdLists(n) ==
    IF n = 0 THEN {<<>>}
    ELSE EdLists(n - 1) \cup
         {Append(l, m) : l \in {x \in EdLists(n - 1) : Len(x) = n - 1}, m \in EdMemories}

InitEd ==
    /\ CloneIdle /\ ReadIdle /\ CivIdle /\ CtIdle /\ BfIdle /\ ValIdle /\ SaIdle /\ RtIdle /\ KwIdle
    /\ edOp \in {"edited", "paste"}
    /\ edRf \in {[DefaultFeatures EXCEPT !.valid_modes = <<"FM", "AM">>,
                                         !.valid_power_levels = vp] :
                    vp \in {<<>>, <<"High", "Low">>}}
    /\ edReadOnly \in (IF edOp = "edited" THEN BOOLEAN ELSE {FALSE})
    /\ edList \in (IF edOp = "edited" THEN {<<m>> : m \in EdMemories}
                                      ELSE EdLists(MaxPaste) \ {<<>>})
    /\ edFilled \in (IF edOp = "edited" THEN {<<>>} ELSE [1..Len(edList) -> BOOLEAN])
    /\ edLog = <<>> /\ edJobs = <<>> /\ edPc = "call"

\* MemoryEditor.edited, for an edit that changed the row: the memory of the
\* row is validated and, when there is no message, submitted
Edited ==
    /\ edOp = "edited" /\ edPc = "call"
    /\ IF edReadOnly
       THEN UNCHANGED <<edLog, edJobs>>
       ELSE \E msgs \in {validate_memory(edRf, edList[1])} :
              /\ edLog' = <<Outcome(edList[1], msgs, ~Blocked(msgs))>>
              /\ edJobs' = IF Blocked(msgs) THEN <<>> ELSE <<edList[1]>>
    /\ edPc' = "returned"
    /\ UNCHANGED <<edOp, edRf, edReadOnly, edList, edFilled>>
    /\ UNCHANGED notEdVars

\* MemoryEditor._paste_selection, from the first row on
PasteSelection ==
    /\ edOp = "paste" /\ edPc = "call"
    /\ \E ow \in [1..Len(edList) -> {1, 2, 3, 4}], inc \in [1..Len(edList) -> {1, 2}] :
       \E log \in {PasteLoop(edRf, edList, edFilled, ow, inc, 0, FALSE)} :
         /\ edLog' = log
         /\ edJobs' = Written(log)
    /\ edPc' = "returned"
    /\ UNCHANGED <<edOp, edRf, edReadOnly, edList, edFilled>>
    /\ UNCHANGED notEdVars

NextEd == Edited \/ PasteSelection
SpecEd == InitEd /\ [][NextEd]_vars

----------------------------------------------------------------------------
(* chirpui/common.py: RadioJob and RadioThread.  run() is the worker       *)
(* thread; submit, flush, stop, lock and unlock are called from the thread *)
(* of the user interface, which also runs the callbacks that execute()     *)
(* hands to gobject.idle_add.  Each action is one step that the other      *)
(* thread can see: a critical section of the queue lock, an operation on   *)
(* the semaphore or on the run lock, the execution of a job.               *)

MaxJobs == 3
MaxFlush == 1
MaxLocks == 1
NumLocs == 3

\* RadioJob(cb, func, *args); cb is <<>> for None and <<dst>> for
\* "lambda m: store_mem(m, dst)"
RadioJob(id, func, loc, mem, cb) ==
    [id |-> id, func |-> func, loc |-> loc, mem |-> mem, cb |-> cb]

\* a queue that hands out its newest job
PopLast(queue) == Len(queue)

\* self.__queue.pop(0): the index of the job taken
PopIndex(queue) == 1

\* what is left of the queue without the job at index i
Without(queue, i) == SubSeq(queue, 1, i - 1) \o SubSeq(queue, i + 1, Len(queue))

\* a run lock that the worker takes whoever holds it
AcquiresAlways(holders) == TRUE

\* threading.Lock.acquire: it returns when nobody holds the lock
Acquires(holders) == holders = {}

\* the ids of the jobs of a queue
QueueIds(queue) == {queue[k].id : k \in 1..Len(queue)}

\* the calling thread does nothing about the thread's state
RtCallerUnchanged ==
    UNCHANGED <<rtMain, rtNext, rtFlushed, rtStopped, rtFlushes, rtLocks, rtRadio0,
                rtLocA, rtLocB>>

\* run(): while self.__enabled
WorkerTop ==
    /\ rtPc = "top"
    /\ rtPc' = IF rtEnabled THEN "wait" ELSE "exited"
    /\ UNCHANGED <<rtQueue, rtCounter, rtEnabled, rtRunlock, rtJob, rtExecuted,
                   rtIdleCbs, rtRadio>>
    /\ RtCallerUnchanged
    /\ UNCHANGED notRtVars

\* run(): self.__counter.acquire()
WorkerAcquire ==
    /\ rtPc = "wait" /\ rtCounter > 0
    /\ rtCounter' = rtCounter - 1
    /\ rtPc' = "pop"
    /\ UNCHANGED <<rtQueue, rtEnabled, rtRunlock, rtJob, rtExecuted, rtIdleCbs, rtRadio>>
    /\ RtCallerUnchanged
    /\ UNCHANGED notRtVars

\* run(): job = self.__queue.pop(0) under the queue lock; IndexError: break
WorkerPop ==
    /\ rtPc = "pop"
    /\ IF rtQueue = <<>>
       THEN rtPc' = "exited" /\ UNCHANGED <<rtQueue, rtJob>>
       ELSE /\ rtJob' = <<rtQueue[PopIndex(rtQueue)]>>
            /\ rtQueue' = Without(rtQueue, PopIndex(rtQueue))
            /\ rtPc' = "lock"
    /\ UNCHANGED <<rtCounter, rtEnabled, rtRunlock, rtExecuted, rtIdleCbs, rtRadio>>
    /\ RtCallerUnchanged
    /\ UNCHANGED notRtVars

\* run(): self.lock()
WorkerLock ==
    /\ rtPc = "lock" /\ Acquires(rtRunlock)
    /\ rtRunlock' = rtRunlock \cup {"worker"}
    /\ rtPc' = "exec"
    /\ UNCHANGED <<rtQueue, rtCounter, rtEnabled, rtJob, rtExecuted, rtIdleCbs, rtRadio>>
    /\ RtCallerUnchanged
    /\ UNCHANGED notRtVars

\* run(): job.execute(self.radio): the function of the radio is called and
\* the callback, if any, is handed the result through gobject.idle_add
WorkerExecute ==
    /\ rtPc = "exec"
    /\ LET job == rtJob[1]
           result == IF job.func = "get_memory"
                     THEN <<[number |-> job.loc, channel |-> rtRadio[job.loc]]>>
                     ELSE <<>>
       IN  /\ rtRadio' = IF job.func = "set_memory"
                         THEN [rtRadio EXCEPT ![job.mem[1].number] = job.mem[1].channel]
                         ELSE rtRadio
           /\ rtExecuted' = Append(rtExecuted, [id |-> job.id, func |-> job.func,
                                                ext |-> "ext" \in rtRunlock])
           /\ rtIdleCbs' = IF job.cb # <<>>
                           THEN Append(rtIdleCbs, [dst |-> job.cb[1], result |-> result])
                           ELSE rtIdleCbs
    /\ rtPc' = "unlock"
    /\ UNCHANGED <<rtQueue, rtCounter, rtEnabled, rtRunlock, rtJob>>
    /\ RtCallerUnchanged
    /\ UNCHANGED notRtVars

\* run(): self.unlock()
WorkerUnlock ==
    /\ rtPc = "unlock"
    /\ rtRunlock' = rtRunlock \ {"worker"}
    /\ rtJob' = <<>>
    /\ rtPc' = "top"
    /\ UNCHANGED <<rtQueue, rtCounter, rtEnabled, rtExecuted, rtIdleCbs, rtRadio>>
    /\ RtCallerUnchanged
    /\ UNCHANGED notRtVars

\* submit(job): the job is appended under the queue lock
Submit ==
    /\ rtMain = "idle" /\ ~rtStopped /\ rtNext <= MaxJobs /\ rtLocA = 0
    /\ rtQueue' = Append(rtQueue, RadioJob(rtNext, "status", 0, <<>>, <<>>))
    /\ rtNext' = rtNext + 1
    /\ rtMain' = "release"
    /\ UNCHANGED <<rtCounter, rtEnabled, rtRunlock, rtPc, rtJob, rtExecuted, rtFlushed,
                   rtStopped, rtFlushes, rtLocks, rtIdleCbs, rtRadio, rtRadio0, rtLocA, rtLocB>>
    /\ UNCHANGED notRtVars

\* submit(job) and stop(): self.__counter.release()
CounterRelease ==
    /\ rtMain \in {"release", "release, submit b", "release, disable"}
    /\ rtCounter' = rtCounter + 1
    /\ rtMain' = IF rtMain = "release" THEN "idle"
                 ELSE IF rtMain = "release, submit b" THEN "submit b"
                 ELSE "disable"
    /\ UNCHANGED <<rtQueue, rtEnabled, rtRunlock, rtPc, rtJob, rtNext, rtExecuted,
                   rtFlushed, rtStopped, rtFlushes, rtLocks, rtIdleCbs, rtRadio, rtRadio0,
                   rtLocA, rtLocB>>
    /\ UNCHANGED notRtVars

\* flush()
Flush ==
    /\ rtMain = "idle" /\ ~rtStopped /\ rtFlushes < MaxFlush
    /\ rtQueue' = <<>>
    /\ rtFlushed' = rtFlushed \cup QueueIds(rtQueue)
    /\ rtFlushes' = rtFlushes + 1
    /\ UNCHANGED <<rtCounter, rtEnabled, rtRunlock, rtPc, rtJob, rtMain, rtNext, rtExecuted,
                   rtStopped, rtLocks, rtIdleCbs, rtRadio, rtRadio0, rtLocA, rtLocB>>
    /\ UNCHANGED notRtVars

\* stop(): self.flush()
StopFlush ==
    /\ rtMain = "idle" /\ ~rtStopped
    /\ rtQueue' = <<>>
    /\ rtFlushed' = rtFlushed \cup QueueIds(rtQueue)
    /\ rtStopped' = TRUE
    /\ rtMain' = "release, disable"
    /\ UNCHANGED <<rtCounter, rtEnabled, rtRunlock, rtPc, rtJob, rtNext, rtExecuted,
                   rtFlushes, rtLocks, rtIdleCbs, rtRadio, rtRadio0, rtLocA, rtLocB>>
    /\ UNCHANGED notRtVars

\* stop(): self.__enabled = False
StopDisable ==
    /\ rtMain = "disable"
    /\ rtEnabled' = FALSE
    /\ rtMain' = "idle"
    /\ UNCHANGED <<rtQueue, rtCounter, rtRunlock, rtPc, rtJob, rtNext, rtExecuted,
                   rtFlushed, rtStopped, rtFlushes, rtLocks, rtIdleCbs, rtRadio, rtRadio0,
                   rtLocA, rtLocB>>
    /\ UNCHANGED notRtVars

\* lock(), called from outside the thread
ExtLock ==
    /\ rtMain = "idle" /\ rtLocks < MaxLocks /\ "ext" \notin rtRunlock
    /\ rtRunlock = {}
    /\ rtRunlock' = {"ext"}
    /\ rtLocks' = rtLocks + 1
    /\ UNCHANGED <<rtQueue, rtCounter, rtEnabled, rtPc, rtJob, rtMain, rtNext, rtExecuted,
                   rtFlushed, rtStopped, rtFlushes, rtIdleCbs, rtRadio, rtRadio0,
                   rtLocA, rtLocB>>
    /\ UNCHANGED notRtVars

\* unlock(), called by who called lock()
ExtUnlock ==
    /\ "ext" \in rtRunlock
    /\ rtRunlock' = rtRunlock \ {"ext"}
    /\ UNCHANGED <<rtQueue, rtCounter, rtEnabled, rtPc, rtJob, rtMain, rtNext, rtExecuted,
                   rtFlushed, rtStopped, rtFlushes, rtLocks, rtIdleCbs, rtRadio, rtRadio0,
                   rtLocA, rtLocB>>
    /\ UNCHANGED notRtVars

\* a started thread, nothing submitted yet
InitRt ==
    /\ CloneIdle /\ ReadIdle /\ CivIdle /\ CtIdle /\ BfIdle /\ ValIdle /\ SaIdle /\ EdIdle /\ KwIdle
    /\ rtQueue = <<>> /\ rtCounter = 0 /\ rtEnabled = TRUE /\ rtRunlock = {}
    /\ rtPc = "top" /\ rtJob = <<>> /\ rtMain = "idle" /\ rtNext = 1
    /\ rtExecuted = <<>> /\ rtFlushed = {} /\ rtStopped = FALSE /\ rtFlushes = 0
    /\ rtLocks = 0 /\ rtIdleCbs = <<>> /\ rtRadio = <<>> /\ rtRadio0 = <<>>
    /\ rtLocA = 0 /\ rtLocB = 0

Worker ==
    WorkerTop \/ WorkerAcquire \/ WorkerPop \/ WorkerLock \/ WorkerExecute \/ WorkerUnlock

NextRt ==
    \/ WorkerTop \/ WorkerAcquire \/ WorkerPop \/ WorkerLock \/ WorkerExecute \/ WorkerUnlock
    \/ Submit \/ CounterRelease \/ Flush \/ StopFlush \/ StopDisable \/ ExtLock \/ ExtUnlock

SpecRt == InitRt /\ [][NextRt]_vars

(* chirpui/memedit.py: _exchange_memories, on a thread that is running *)

ExChannels == {"c1", "c2"}

\* _exchange_memories: the job that gets loc_a is submitted
ExchangeSubmitA ==
    /\ rtMain = "idle" /\ rtLocA = 0
    /\ \E a, b \in 1..NumLocs :
         /\ a # b
         /\ rtLocA' = a /\ rtLocB' = b
         /\ rtQueue' = Append(rtQueue, RadioJob(rtNext, "get_memory", a, <<>>, <<b>>))
    /\ rtNext' = rtNext + 1
    /\ rtRadio0' = rtRadio
    /\ rtMain' = "release, submit b"
    /\ UNCHANGED <<rtCounter, rtEnabled, rtRunlock, rtPc, rtJob, rtExecuted, rtFlushed,
                   rtStopped, rtFlushes, rtLocks, rtIdleCbs, rtRadio>>
    /\ UNCHANGED notRtVars

\* _exchange_memories: the job that gets loc_b is submitted
ExchangeSubmitB ==
    /\ rtMain = "submit b"
    /\ rtQueue' = Append(rtQueue, RadioJob(rtNext, "get_memory", rtLocB, <<>>, <<rtLocA>>))
    /\ rtNext' = rtNext + 1
    /\ rtMain' = "release"
    /\ UNCHANGED <<rtCounter, rtEnabled, rtRunlock, rtPc, rtJob, rtExecuted, rtFlushed,
                   rtStopped, rtFlushes, rtLocks, rtIdleCbs, rtRadio, rtRadio0, rtLocA, rtLocB>>
    /\ UNCHANGED notRtVars

\* the main loop runs the oldest idle callback: store_mem(mem, dst)
StoreMem ==
    /\ rtMain = "idle" /\ rtIdleCbs # <<>>
    /\ LET mem == [Head(rtIdleCbs).result[1] EXCEPT !.number = Head(rtIdleCbs).dst]
       IN  rtQueue' = Append(rtQueue, RadioJob(rtNext, "set_memory", 0, <<mem>>, <<>>))
    /\ rtNext' = rtNext + 1
    /\ rtIdleCbs' = Tail(rtIdleCbs)
    /\ rtMain' = "release"
    /\ UNCHANGED <<rtCounter, rtEnabled, rtRunlock, rtPc, rtJob, rtExecuted, rtFlushed,
                   rtStopped, rtFlushes, rtLocks, rtRadio, rtRadio0, rtLocA, rtLocB>>
    /\ UNCHANGED notRtVars

\* a started thread for a radio with any channels
InitEx ==
    /\ CloneIdle /\ ReadIdle /\ CivIdle /\ CtIdle /\ BfIdle /\ ValIdle /\ SaIdle /\ EdIdle /\ KwIdle
    /\ rtQueue = <<>> /\ rtCounter = 0 /\ rtEnabled = TRUE /\ rtRunlock = {}
    /\ rtPc = "top" /\ rtJob = <<>> /\ rtMain = "idle" /\ rtNext = 1
    /\ rtExecuted = <<>> /\ rtFlushed = {} /\ rtStopped = FALSE /\ rtFlushes = 0
    /\ rtLocks = 0 /\ rtIdleCbs = <<>>
    /\ rtRadio \in [1..NumLocs -> ExChannels]
    /\ rtRadio0 = rtRadio
    /\ rtLocA = 0 /\ rtLocB = 0

NextEx ==
    \/ WorkerTop \/ WorkerAcquire \/ WorkerPop \/ WorkerLock \/ WorkerExecute \/ WorkerUnlock
    \/ Submit \/ CounterRelease \/ ExtLock \/ ExtUnlock
    \/ ExchangeSubmitA \/ ExchangeSubmitB \/ StoreMem

SpecEx == InitEx /\ [][NextEx]_vars

\* the worker thread runs whenever it can, and who holds the run lock from
\* outside releases it
SpecRtFair ==
    /\ InitRt /\ [][NextRt]_vars
    /\ WF_vars(Worker)
    /\ WF_vars(ExtUnlock)
    /\ WF_vars(CounterRelease)

----------------------------------------------------------------------------
(* chirp/kenwood_live.py: KenwoodLiveRadio.get_memory, set_memory and      *)
(* erase_memory with the memory cache, and the radio they talk to.  The    *)
(* radio stores at each location a channel (MR, MW) and its name (MNA); it *)
(* answers "N" or "?" to a command it rejects and then stores nothing.     *)

KwUpper == 1
MaxKwCalls == 3

KwSpecs == {"s1", "s2"}
KwNames == {"A", "B"}

EmptyChannel == [empty |-> TRUE, spec |-> "", name |-> ""]

KwChannels ==
    {EmptyChannel} \cup {[empty |-> FALSE, spec |-> sp, name |-> nm] : sp \in KwSpecs, nm \in KwNames}

\* chirp_common.Memory as the driver fills it
KwMemory(number, ch) ==
    [number |-> number, empty |-> ch.empty, spec |-> ch.spec, name |-> ch.name]

\* the memories a caller hands to set_memory
KwMemories ==
    {KwMemory(n, ch) : n \in 0..(KwUpper + 1), ch \in KwChannels \ {EmptyChannel}}

KwCallerUnchanged == UNCHANGED <<kwLock, kwPc, kwWire, kwCmds>>

\* get_memory(number)
KwGetMemory ==
    /\ kwCalls < MaxKwCalls
    /\ kwCalls' = kwCalls + 1
    /\ \E number \in 0..(KwUpper + 1) :
         IF number < 0 \/ number > KwUpper
         THEN kwRet' = "InvalidMemoryLocation" /\ UNCHANGED <<kwRadio, kwCache>>
         ELSE IF kwCache[number] # <<>>
         THEN kwRet' = "returned" /\ UNCHANGED <<kwRadio, kwCache>>
         ELSE \* MR: "N" for an empty location, else the channel; then MNA
              /\ kwCache' = [kwCache EXCEPT ![number] = <<KwMemory(number, kwRadio[number])>>]
              /\ kwRet' = "returned"
              /\ UNCHANGED kwRadio
    /\ KwCallerUnchanged
    /\ UNCHANGED notKwVars

\* set_memory(memory); ok1 and ok2: the radio accepts MW and MNA
KwSetMemory ==
    /\ kwCalls < MaxKwCalls
    /\ kwCalls' = kwCalls + 1
    /\ \E memory \in KwMemories, ok1, ok2 \in BOOLEAN :
         IF memory.number < 0 \/ memory.number > KwUpper
         THEN kwRet' = "InvalidMemoryLocation" /\ UNCHANGED <<kwRadio, kwCache>>
         ELSE IF ~ok1
         THEN kwRet' = "InvalidDataError" /\ UNCHANGED <<kwRadio, kwCache>>
         ELSE IF ~ok2
         THEN /\ kwRadio' = [kwRadio EXCEPT ![memory.number] =
                               [empty |-> FALSE, spec |-> memory.spec, name |-> @.name]]
              /\ kwRet' = "InvalidDataError"
              /\ UNCHANGED kwCache
         ELSE /\ kwRadio' = [kwRadio EXCEPT ![memory.number] =
                               [empty |-> FALSE, spec |-> memory.spec, name |-> memory.name]]
              /\ kwCache' = [kwCache EXCEPT ![memory.number] = <<memory>>]
              /\ kwRet' = "returned"
    /\ KwCallerUnchanged
    /\ UNCHANGED notKwVars

\* erase_memory(number); ok: the radio accepts the MW without a channel
KwEraseMemory ==
    /\ kwCalls < MaxKwCalls
    /\ kwCalls' = kwCalls + 1
    /\ \E number \in 0..KwUpper, ok \in BOOLEAN :
         IF kwCache[number] = <<>>
         THEN kwRet' = "returned" /\ UNCHANGED <<kwRadio, kwCache>>
         ELSE IF ~ok
         THEN kwRet' = "RadioError" /\ UNCHANGED <<kwRadio, kwCache>>
         ELSE /\ kwRadio' = [kwRadio EXCEPT ![number] = EmptyChannel]
              /\ kwCache' = [kwCache EXCEPT ![number] = <<>>]
              /\ kwRet' = "returned"
    /\ KwCallerUnchanged
    /\ UNCHANGED notKwVars

\* a radio object just made, for a radio with any channels
InitKw ==
    /\ CloneIdle /\ ReadIdle /\ CivIdle /\ CtIdle /\ BfIdle /\ ValIdle /\ SaIdle /\ EdIdle /\ RtIdle
    /\ kwRadio \in [0..KwUpper -> KwChannels]
    /\ kwCache = [n \in 0..KwUpper |-> <<>>]
    /\ kwRet = "none" /\ kwCalls = 0
    /\ kwLock = 0 /\ kwPc = <<>> /\ kwWire = <<>> /\ kwCmds = 0

NextKw == KwGetMemory \/ KwSetMemory \/ KwEraseMemory

SpecKw == InitKw /\ [][NextKw]_vars

(* chirp/kenwood_live.py: command(), called by two threads.  s.write and   *)
(* s.read are calls of the serial port, which return or raise.             *)

KwThreads == {1, 2}
MaxKwCmds == 4

KwMemUnchanged == UNCHANGED <<kwRadio, kwCache, kwRet, kwCalls>>

\* a thread calls command(): LOCK.acquire()
CmdAcquire(t) ==
    /\ kwPc[t] \in {"idle", "returned", "failed"} /\ kwCmds < MaxKwCmds
    /\ kwLock = 0
    /\ kwLock' = t
    /\ kwCmds' = kwCmds + 1
    /\ kwPc' = [kwPc EXCEPT ![t] = "write"]
    /\ UNCHANGED kwWire
    /\ KwMemUnchanged
    /\ UNCHANGED notKwVars

\* s.write(cmd + "\r")
CmdWrite(t) ==
    /\ kwPc[t] = "write"
    /\ \/ kwWire' = Append(kwWire, <<t, "request">>) /\ kwPc' = [kwPc EXCEPT ![t] = "read"]
       \/ kwPc' = [kwPc EXCEPT ![t] = "failed"] /\ UNCHANGED kwWire
    /\ UNCHANGED <<kwLock, kwCmds>>
    /\ KwMemUnchanged
    /\ UNCHANGED notKwVars

\* while not result.endswith("\r"): result += s.read(8): a read brings the
\* end of the response or a part of it, or raises
CmdRead(t) ==
    /\ kwPc[t] = "read"
    /\ \/ kwWire' = Append(kwWire, <<t, "response">>) /\ kwPc' = [kwPc EXCEPT ![t] = "release"]
       \/ /\ kwWire[Len(kwWire)] = <<t, "request">>
          /\ kwWire' = Append(kwWire, <<t, "part">>) /\ UNCHANGED kwPc
       \/ kwPc' = [kwPc EXCEPT ![t] = "failed"] /\ UNCHANGED kwWire
    /\ UNCHANGED <<kwLock, kwCmds>>
    /\ KwMemUnchanged
    /\ UNCHANGED notKwVars

\* LOCK.release(); return result.strip()
CmdRelease(t) ==
    /\ kwPc[t] = "release"
    /\ kwLock' = 0
    /\ kwPc' = [kwPc EXCEPT ![t] = "returned"]
    /\ UNCHANGED <<kwWire, kwCmds>>
    /\ KwMemUnchanged
    /\ UNCHANGED notKwVars

InitKwCmd ==
    /\ CloneIdle /\ ReadIdle /\ CivIdle /\ CtIdle /\ BfIdle /\ ValIdle /\ SaIdle /\ EdIdle /\ RtIdle
    /\ kwRadio = <<>> /\ kwCache = <<>> /\ kwRet = "none" /\ kwCalls = 0
    /\ kwLock = 0 /\ kwPc = [t \in KwThreads |-> "idle"] /\ kwWire = <<>> /\ kwCmds = 0

NextKwCmd ==
    \E t \in KwThreads : CmdAcquire(t) \/ CmdWrite(t) \/ CmdRead(t) \/ CmdRelease(t)

SpecKwCmd == InitKwCmd /\ [][NextKwCmd]_vars

----------------------------------------------------------------------------
(* Properties *)

IsMagic(e) == e.t = "magic"
IsBlock(e) == e.t = "X"
Magics == SelectSeq(tx, IsMagic)
Blocks == SelectSeq(tx, IsBlock)

\* the blocks of a sequence of _read_block calls, one after the other
ConcatChunks(log) == ConcatAll([k \in 1..Len(log) |-> log[k].resp.chunk])

\* the header of the answer names the command X and the address and the
\* length of the request
HeaderMatches(e) ==
    /\ Len(e.resp.hdr) = 4
    /\ e.resp.hdr[1] = CmdX
    /\ e.resp.hdr[2] * 256 + e.resp.hdr[3] = e.start
    /\ e.resp.hdr[4] = e.size

UV5RDownloadDone == driver = "uv5r" /\ op = "in" /\ pc = "done"

\* C1 as stated: the download of the 0x1808-byte image issues exactly 97
\* chunk requests, every response carries the address and length of its
\* request, and the image is the concatenation of the received chunks
C1_NinetySevenRequests ==
    UV5RDownloadDone =>
        /\ Len(reads) = 97
        /\ \A k \in 1..Len(reads) : HeaderMatches(reads[k])
        /\ mmap = ConcatChunks(reads)

\* C1 amended: a completed download has made 103 block requests of 0x40
\* bytes: the two firmware version blocks 0x1EC0 and 0x1F00, the 96 main
\* blocks 0, 0x40, ..., 0x17C0 and the 5 auxiliary blocks 0x1EC0, ...,
\* 0x1FC0; every response carries the address and length of its request;
\* the image is the identification data followed by the main and the
\* auxiliary chunks in request order
C1_DownloadPlan ==
    UV5RDownloadDone =>
        /\ MainSize \div BlockSize = 96
        /\ Len(reads) = 2 + 96 + 5
        /\ reads[1].start = FwBlock1 /\ reads[2].start = FwBlock2
        /\ \A k \in 1..96 : reads[2 + k].start = (k - 1) * BlockSize
        /\ \A k \in 1..5 : reads[98 + k].start = AuxStart + (k - 1) * BlockSize
        /\ \A k \in 1..Len(reads) :
              /\ reads[k].size = BlockSize
              /\ HeaderMatches(reads[k])
              /\ Len(reads[k].resp.chunk) = BlockSize
        /\ mmap = ident \o ConcatChunks(SubSeq(reads, 3, Len(reads)))
        /\ Len(mmap) = Len(ident) + MainSize + (AuxEnd - AuxStart)

C1_Witness == UV5RDownloadDone /\ Len(mmap) = 6472

\* C2: a block read returns data only when the header of the answer has
\* the opcode X and the address and length of the request and the number
\* of data bytes asked for came; otherwise the transfer has failed with an
\* error, the request is the last thing written, and the data of the
\* download holds nothing of that block
C2_ReadBlockChecked ==
    driver = "uv5r" =>
        /\ \A k \in 1..Len(reads) :
              /\ reads[k].ok <=>
                    /\ HeaderMatches(reads[k])
                    /\ Len(reads[k].resp.chunk) = reads[k].size
                    /\ (reads[k].first \/ reads[k].resp.ack = <<ACK>>)
              /\ ~reads[k].ok =>
                    /\ k = Len(reads)
                    /\ pc = "failed" /\ err # ""
                    /\ tx[Len(tx)] = [t |-> "S", msg |-> Pack_BHB(CmdS, reads[k].start, reads[k].size)]
        /\ op = "in" =>
              Len(data) = Len(ident)
                  + BlockSize * Cardinality({k \in 3..Len(reads) : reads[k].ok})

C2_Witness ==
    /\ driver = "uv5r" /\ op = "in" /\ pc = "failed"
    /\ err = "Unknown response from radio"
    /\ Len(reads) > 10
    /\ reads[Len(reads)].resp.hdr[4] # reads[Len(reads)].size

\* C3: every block sent in an upload is followed by the read of one
\* acknowledgement byte; when that read returns nothing or another byte
\* than ACK the upload has failed with an error and that block is the
\* last thing sent
C3_BlockAcknowledged ==
    (driver = "uv5r" /\ op = "out") =>
        \A k \in 1..Len(tx) :
            tx[k].t = "X" =>
                /\ Len(tx[k].ack) <= 1
                /\ tx[k].ack # <<ACK>> =>
                      /\ k = Len(tx)
                      /\ pc = "failed"
                      /\ err = "Radio refused to accept block"

C3_Witness ==
    /\ driver = "uv5r" /\ op = "out" /\ pc = "failed"
    /\ Len(Blocks) > 1
    /\ tx[Len(tx)].t = "X" /\ tx[Len(tx)].ack = <<NAK>>

NoBlockSent == \A k \in 1..Len(tx) : tx[k].t # "X"

\* C4 as stated: when the firmware version tag or the special block of the
\* image differs from the device's, no block is ever written
C4_AbortBeforeAnyBlock ==
    (/\ driver = "uv5r" /\ op = "out"
     /\ \/ FirmwareVersionFromImage(mmap) # DevFw(dev)
        \/ SpecialBlockFromImage(mmap) # DevSpecial(dev))
        => NoBlockSent

\* C4 amended: when the special block of the image differs from the
\* device's, the upload never writes a block and never completes.  When
\* the firmware version tag differs and the image has an auxiliary block
\* (it is not 0x1808 bytes long), no auxiliary block is written and the
\* upload never completes: it fails after the whole main block (384 blocks
\* of 0x10 bytes) has been written
C4_SpecialBlockAndFirmware ==
    (driver = "uv5r" /\ op = "out") =>
        /\ SpecialBlockFromImage(mmap) # DevSpecial(dev) =>
              NoBlockSent /\ pc \notin {"main", "aux", "done"}
        /\ (FirmwareVersionFromImage(mmap) # DevFw(dev) /\ Len(mmap) # MemSize) =>
              /\ pc \notin {"aux", "done"}
              /\ \A k \in 1..Len(tx) :
                    tx[k].t = "X" => tx[k].msg[2] * 256 + tx[k].msg[3] < MainSize
              /\ err = "Upload finished, but the 'Other Settings' could not be sent" =>
                    pc = "failed" /\ Len(Blocks) = MainSize \div UpBlockSize

C4_Witness ==
    /\ driver = "uv5r" /\ op = "out" /\ pc = "failed"
    /\ err = "Upload finished, but the 'Other Settings' could not be sent"
    /\ FirmwareVersionFromImage(mmap) # DevFw(dev)
    /\ Len(Blocks) = 384

\* the bytes and the address a received data frame carries
FrameBytes(f) == ProcessBcd(f.payload)
FrameAddr(f) == FrameBytes(f)[1] * 256 + FrameBytes(f)[2]
FrameCovers(f, a) ==
    /\ f.cmd = CMD_CLONE_DAT
    /\ Len(FrameBytes(f)) >= 3
    /\ a >= FrameAddr(f)
    /\ a < FrameAddr(f) + FrameBytes(f)[3]
    /\ Len(FrameBytes(f)) > 3 + (a - FrameAddr(f))

\* every chunk of the transfer plan has been received
DownloadComplete ==
    IF driver = "uv5r"
    THEN Cardinality({k \in 1..Len(reads) : reads[k].ok}) = 103
    ELSE \A a \in 0..(IcfMemSize - 1) : \E k \in 1..Len(reads) : FrameCovers(reads[k], a)

\* C5: a download that ends before every chunk of the plan has been
\* received does not complete: sync_in stores an image only when all
\* chunks came, and until then the image held before is unchanged
C5_NoPartialImage ==
    op = "in" => IF pc = "done" THEN DownloadComplete ELSE mmap = mmap0

\* C6: an upload completes without error only when the last frame
\* received is the clone result frame with result code 0x00
C6_ResultChecked ==
    (driver = "icf" /\ op = "out" /\ pc = "done") =>
        /\ frames # <<>>
        /\ frames[Len(frames)].cmd = CMD_RESULT
        /\ frames[Len(frames)].payload = <<0>>

\* C7: a chunk whose checksum does not match is not written into the
\* image: every byte the downloaded image holds (the image starts
\* zero-filled) was carried by a data frame whose checksum is right
C7_ChecksumVerified ==
    (driver = "icf" /\ op = "in") =>
        \A a \in 0..(Len(data) - 1) :
            data[a + 1] # 0 =>
                \E k \in 1..Len(reads) :
                    /\ FrameCovers(reads[k], a)
                    /\ FrameChecksumOk(reads[k].payload)
                    /\ FrameBytes(reads[k])[4 + (a - FrameAddr(reads[k]))] = data[a + 1]

\* the payload of a frame as written: what stands between the command
\* byte and the final FD
SentPayload(msg) == SubSeq(msg, 6, Len(msg) - 1)

\* C8: every clone data frame sent carries, after the hexadecimal text of
\* its payload bytes, a one-byte checksum c with
\* (sum of the payload bytes + c) mod 256 = 0
C8_ChecksumNegatedSum ==
    \A k \in 1..Len(tx) :
        (tx[k].t = "frame" /\ tx[k].msg[5] = CMD_CLONE_DAT) =>
            LET text == SentPayload(tx[k].msg)
                bytes == ProcessBcd(text)
                n == Len(bytes)
            IN  /\ Len(text) = 2 * n
                /\ n >= 4
                /\ bytes[n] \in 0..255
                /\ (SumSeq(SubSeq(bytes, 1, n - 1)) + bytes[n]) % 256 = 0
                /\ text = HexEncode(bytes)

C8_Witness ==
    \E k \in 1..Len(tx) :
        /\ tx[k].t = "frame" /\ tx[k].msg[5] = CMD_CLONE_DAT
        /\ SumSeq(SubSeq(ProcessBcd(SentPayload(tx[k].msg)), 1,
                         Len(ProcessBcd(SentPayload(tx[k].msg))) - 1)) > 256

\* the device accepted the magic: both acknowledgements came
Accepted(r) == r.ack1 = <<ACK>> /\ r.ack2 = <<ACK>>

\* C9: the magic sequences are tried in their declared order, each at
\* most once; the identification returned is that of the first magic the
\* device accepts, and identification fails only when all have failed
C9_IdentOrder ==
    driver = "uv5r" =>
        /\ Len(Magics) <= Len(Idents)
        /\ \A k \in 1..Len(Magics) : Magics[k].msg = Idents[k]
        /\ \A k \in 1..(Len(Magics) - 1) : ~Accepted(Magics[k].resp)
        /\ pc = "ident" => \A k \in 1..Len(Magics) : ~Accepted(Magics[k].resp)
        /\ pc # "ident" =>
              /\ Len(Magics) >= 1
              /\ IF Accepted(Magics[Len(Magics)].resp)
                 THEN ident = Magics[Len(Magics)].resp.id
                 ELSE /\ pc = "failed"
                      /\ Len(Magics) = Len(Idents)
                      /\ err \in {"Radio did not respond", "Radio refused clone"}

C9_Witness ==
    /\ driver = "uv5r" /\ pc = "fw1"
    /\ Len(Magics) = 2
    /\ ~Accepted(Magics[1].resp) /\ Accepted(Magics[2].resp)
    /\ ident = DevIdent(dev)

\* the firmware version names one of the driver's base types
BaseTypeIn(version, types) == \E k \in 1..Len(types) : Contains(version, types[k])

C11_EmptyReadRaises ==
    rdEmpty > 0 => rdPc = "raised" /\ rdErr = "Timeout" /\ rdEmpty = 1

\* C12 as stated: on an interface that echoes, the echo read of every frame
\* sent takes exactly the bytes of that frame; on an interface that does
\* not echo, no received byte is taken as an echo
C12_EchoConsumed ==
    \A k \in 1..Len(civSends) :
        civSends[k].echo = IF civEchoing THEN civSends[k].raw ELSE <<>>

C14_UploadKeepsImage ==
    op = "out" => mmap = mmap0

\* an upload was cancelled after blocks of the image had been sent
C14_Witness ==
    /\ op = "out" /\ pc = "cancelled" /\ ~NoBlockSent
    /\ mmap # <<>>

\* the chunks a UV-5R transfer has moved: the blocks read into the image, or
\* the blocks sent
UV5RChunks ==
    IF op = "in" THEN (Len(data) - IdentLen) \div BlockSize ELSE Len(Blocks)

\* C15 as stated: in a UV-5R download or upload the progress callback is
\* called at least once for every chunk moved, the chunks of the auxiliary
\* region included, and once more when the transfer completes
C15_StatusPerChunk ==
    (driver = "uv5r" /\ pc \in {"main", "aux", "done"}) =>
        /\ Len(status) >= UV5RChunks
        /\ pc = "done" => Len(status) >= UV5RChunks + 1

\* bit number p (from 0, most significant first) of an image
ImageBit(img, p) == ByteBits(img[(p \div 8) + 1])[(p % 8) + 1]

C17_FallbackForEveryOther ==
    valStep # <<>> =>
        /\ ~valStep[1].raised
        /\ valStep[1].step =
              IF valMem.freq % 5000 = 0 THEN 5000
              ELSE IF valMem.freq % 12500 = 0 THEN 12500
              ELSE IF valMem.freq % 6250 = 0 THEN 6250
              ELSE 2500

\* C17 as amended: as stated for 5.0, 12.5 and 6.25; 2.5 when 2500 divides f
\* and none of 5000, 12500, 6250 does; for a frequency that none of the four
\* divides required_step raises InvalidDataError.  required_step(446006250) is 6.25
C17_RequiredStep ==
    valStep # <<>> =>
        /\ valMem.freq % 5000 = 0 => valStep[1] = [raised |-> FALSE, step |-> 5000]
        /\ (valMem.freq % 12500 = 0 /\ valMem.freq % 5000 # 0)
              => valStep[1] = [raised |-> FALSE, step |-> 12500]
        /\ (valMem.freq % 6250 = 0 /\ valMem.freq % 5000 # 0 /\ valMem.freq % 12500 # 0)
              => valStep[1] = [raised |-> FALSE, step |-> 6250]
        /\ (valMem.freq % 2500 = 0 /\ valMem.freq % 5000 # 0 /\ valMem.freq % 12500 # 0
                /\ valMem.freq % 6250 # 0)
              => valStep[1] = [raised |-> FALSE, step |-> 2500]
        /\ (valMem.freq % 2500 # 0 /\ valMem.freq % 5000 # 0 /\ valMem.freq % 12500 # 0
                /\ valMem.freq % 6250 # 0)
              => valStep[1].raised
        /\ valMem.freq = 446006250 => valStep[1].step = 6250

\* required_step(446006250) gave 6.25
C17_Witness ==
    /\ valMem.freq = 446006250 /\ valStep = <<[raised |-> FALSE, step |-> 6250]>>

\* the steps of 12.5, 6.25, 5.0 and 2.5 kHz that divide freq evenly
DividingSteps(freq) == {st \in {12500, 6250, 5000, 2500} : freq % st = 0}

\* the largest number of a set of numbers that is not empty
Coarsest(S) == CHOOSE st \in S : \A other \in S : other <= st

\* C18 as stated: the required step of a frequency is the coarsest of the
\* steps 12.5, 6.25, 5.0 and 2.5 kHz that divides the frequency evenly
C18_CoarsestDividingStep ==
    (valStep # <<>> /\ DividingSteps(valMem.freq) # {}) =>
        /\ ~valStep[1].raised
        /\ valStep[1].step = Coarsest(DividingSteps(valMem.freq))

\* C18 as amended: the required step of a frequency is 5.0 kHz when 5.0
\* divides it evenly, and otherwise the coarsest of 12.5, 6.25 and 2.5 kHz
\* that does
C18_FiveThenCoarsest ==
    (valStep # <<>> /\ DividingSteps(valMem.freq) # {}) =>
        /\ ~valStep[1].raised
        /\ valStep[1].step =
              IF 5000 \in DividingSteps(valMem.freq) THEN 5000
              ELSE Coarsest(DividingSteps(valMem.freq))

\* the required step of a frequency that 12.5 and 5.0 kHz both divide
C18_Witness ==
    /\ valStep # <<>> /\ valMem.freq = 446025000
    /\ DividingSteps(valMem.freq) = {12500, 6250, 5000, 2500}
    /\ valStep[1] = [raised |-> FALSE, step |-> 5000]

\* the messages of msgs that are ValidationErrors with the text of one of texts
ErrorsOf(msgs, texts) ==
    {k \in 1..Len(msgs) : msgs[k].cls = "ValidationError" /\ msgs[k].text \in texts}

\* C19: validation reports an Error for a frequency whose required step is
\* finer than every tuning step that the feature set declares valid (it
\* declares some and not step-less tuning), and for 446006250 Hz against the
\* valid steps 5.0, 10.0 and 25.0; with step-less tuning declared it reports
\* no Error about the frequency's step or the tuning step
C19_StepValidation ==
    valPc = "done" =>
        /\ (/\ valRf.valid_tuning_steps # <<>> /\ ~valRf.has_nostep_tuning
            /\ ~valStep[1].raised
            /\ \A k \in 1..Len(valRf.valid_tuning_steps) :
                  valStep[1].step < valRf.valid_tuning_steps[k])
              => ErrorsOf(valMsgs, {"Frequency requires %.2fkHz step"}) # {}
        /\ (/\ valMem.freq = 446006250 /\ ~valRf.has_nostep_tuning
            /\ valRf.valid_tuning_steps = <<5000, 10000, 25000>>)
              => \E k \in ErrorsOf(valMsgs, {"Frequency requires %.2fkHz step"}) :
                    valMsgs[k].arg = <<6250>>
        /\ valRf.has_nostep_tuning
              => ErrorsOf(valMsgs, {"Frequency requires %.2fkHz step",
                                    "Tuning step %.2f not supported"}) = {}

\* a frequency that requires 2.5 kHz was validated against the steps 5.0,
\* 10.0 and 25.0 and the Error was reported
C19_Witness ==
    /\ valPc = "done" /\ valStep = <<[raised |-> FALSE, step |-> 2500]>>
    /\ valRf.valid_tuning_steps = <<5000, 10000, 25000>> /\ ~valRf.has_nostep_tuning
    /\ ErrorsOf(valMsgs, {"Frequency requires %.2fkHz step"}) # {}

\* the ValidationErrors of msgs
ValidationErrors(msgs) == {k \in 1..Len(msgs) : msgs[k].cls = "ValidationError"}

\* C20: validating a memory of mode "DV" against valid modes ["FM", "AM"]
\* yields exactly one ValidationError about the mode, which names the mode,
\* and exactly one ValidationError more than the same memory in mode "FM":
\* exactly one for a memory that is valid but for its mode
C20_OneModeError ==
    (valPc = "done" /\ valMem.mode = "DV" /\ valRf.valid_modes = <<"FM", "AM">>) =>
        /\ Cardinality(ErrorsOf(valMsgs, {"Mode %s not supported"})) = 1
        /\ \A k \in ErrorsOf(valMsgs, {"Mode %s not supported"}) : valMsgs[k].arg = <<"DV">>
        /\ Cardinality(ValidationErrors(valMsgs)) =
              1 + Cardinality(ValidationErrors(
                      validate_memory(valRf, [valMem EXCEPT !.mode = "FM"])))
        /\ (/\ valMem = [DefaultMemory EXCEPT !.mode = "DV"]
            /\ valRf = [DefaultFeatures EXCEPT !.valid_modes = <<"FM", "AM">>])
              => valMsgs = <<Message("ValidationError", "Mode %s not supported", "DV")>>

\* Memory() with mode "DV" was validated against RadioFeatures() with the
\* valid modes ["FM", "AM"]
C20_Witness ==
    /\ valPc = "done"
    /\ valMem = [DefaultMemory EXCEPT !.mode = "DV"]
    /\ valRf = [DefaultFeatures EXCEPT !.valid_modes = <<"FM", "AM">>]
    /\ Cardinality(ValidationErrors(valMsgs)) = 1

\* the messages of msgs, of either class, with the text text
MessagesOf(msgs, text) == {k \in 1..Len(msgs) : msgs[k].text = text}

\* the value is not in the enumeration, which is not empty, and there is a
\* message with the text; or the enumeration is empty and there is none
EnumerationChecked(value, enum, text) ==
    /\ (enum # <<>> /\ ~InList(value, enum)) => MessagesOf(valMsgs, text) # {}
    /\ enum = <<>> => MessagesOf(valMsgs, text) = {}

\* C21 as stated: for each of mode, duplex, tuning step, skip and power (when
\* the memory has one), whatever the other attributes hold, a value that is
\* not in the feature set's non-empty enumeration produces a message about
\* it, and an empty enumeration produces none
C21_EnumerationsChecked ==
    valPc = "done" =>
        /\ EnumerationChecked(valMem.mode, valRf.valid_modes, "Mode %s not supported")
        /\ EnumerationChecked(valMem.duplex, valRf.valid_duplexes, "Duplex %s not supported")
        /\ EnumerationChecked(valMem.tuning_step, valRf.valid_tuning_steps,
                              "Tuning step %.2f not supported")
        /\ EnumerationChecked(valMem.skip, valRf.valid_skips, "Skip %s not supported")
        /\ valMem.power # "" =>
              EnumerationChecked(valMem.power, valRf.valid_power_levels,
                                 "Power level %s not supported")

\* C22 as stated: every element of the list that validation returns is a
\* ValidationWarning or a ValidationError
C22_OnlyValidationMessages ==
    \A k \in 1..Len(valMsgs) : valMsgs[k].cls \in {"ValidationWarning", "ValidationError"}

\* C23: an assignment of a value outside the attribute's valid list, to an
\* attribute the memory does not define, or to an attribute marked immutable
\* raises an error and leaves every attribute of the memory as it was
C23_FailedAssignmentKeepsMemory ==
    saCalls > 0 =>
        /\ (\/ saName \notin DOMAIN saBefore
            \/ InList(saName, saBefore.immutable)
            \/ (saName \in DOMAIN ValidMap /\ ~InList(saVal[1], ValidMap[saName])))
              => saPc \in {"ValueError", "ImmutableValueError"}
        /\ saPc \in {"ValueError", "ImmutableValueError"} => saMem = saBefore

\* a memory that an assignment had changed was assigned a mode that is not
\* in the valid list
C23_Witness ==
    /\ saCalls = 2 /\ saName = "mode" /\ saVal = <<"SSB">> /\ saPc = "ValueError"
    /\ saMem = saBefore /\ saMem.duplex = "split"

\* C24 as stated: a memory whose validation yields only Warnings is written
\* (a set_memory job is submitted) and its warnings are shown, and a memory
\* whose validation yields an Error is not written
C24_WarningsDoNotBlock ==
    \A k \in 1..Len(edLog) :
        IF \E j \in 1..Len(edLog[k].msgs) : edLog[k].msgs[j].cls = "ValidationError"
        THEN ~edLog[k].written
        ELSE edLog[k].written /\ edLog[k].shown = edLog[k].msgs

\* job id is in the queue or in the hands of the worker
Pending(id) ==
    \/ id \in QueueIds(rtQueue)
    \/ (rtJob # <<>> /\ rtJob[1].id = id /\ rtPc \in {"lock", "exec"})

\* job id was executed
WasExecuted(id) == \E k \in 1..Len(rtExecuted) : rtExecuted[k].id = id

\* C25 as stated: every job submitted after the last flush() and before
\* stop() is eventually executed, the run lock being released by who holds
\* it: a job that is in the queue is executed, or dropped by a later flush()
\* or stop()
C25_SubmittedIsExecuted ==
    \A id \in 1..MaxJobs : Pending(id) ~> (WasExecuted(id) \/ id \in rtFlushed)

\* C26: jobs are executed in the order they were submitted, each at most
\* once, and none while a caller from outside holds the run lock
C26_OrderedOnceUnlocked ==
    /\ \A i, j \in 1..Len(rtExecuted) : i < j => rtExecuted[i].id < rtExecuted[j].id
    /\ \A k \in 1..Len(rtExecuted) : ~rtExecuted[k].ext
    /\ rtPc = "exec" => rtRunlock = {"worker"}

\* two jobs were executed in their order and the worker waits with the
\* third for the run lock, which a caller from outside holds
C26_Witness ==
    /\ Len(rtExecuted) = 2 /\ rtPc = "lock" /\ rtRunlock = {"ext"}

\* C27 as stated: every entry the memory cache holds for a location equals
\* the channel the radio stores at that location
C27_CacheEqualsRadio ==
    \A n \in DOMAIN kwCache :
        kwCache[n] # <<>> => kwCache[n][1] = KwMemory(n, kwRadio[n])

\* the request and the response of one command are next to each other on
\* the line
NotInterleaved ==
    \A k \in 1..Len(kwWire) :
        kwWire[k][2] # "request" =>
            (k > 1 /\ kwWire[k - 1][1] = kwWire[k][1] /\ kwWire[k - 1][2] # "response")

\* C28 as stated: commands never interleave, and a command that returned
\* or failed does not hold the lock
C28_LockReleasedOnExit ==
    /\ NotInterleaved
    /\ \A t \in DOMAIN kwPc : kwPc[t] \in {"returned", "failed"} => kwLock # t

\* the image offset of device address a: a + 8 in the main block,
\* 0x1808 + (a - 0x1EC0) in the auxiliary block
ImageOffset(a) == IF a < MainSize THEN a + IdentLen ELSE AuxOffset + (a - AuxStart)

\* device address a is one that a download reads into the image
InImage(a) == (0 <= a /\ a < MainSize) \/ (AuxStart <= a /\ a < AuxEnd)

\* the blocks of an upload that the device acknowledged
StoredBlocks == SelectSeq(tx, LAMBDA e : e.t = "X" /\ e.ack = <<ACK>>)

\* the address and the bytes of a block that was sent
BlockAddr(e) == Unpack_BHB(e.msg).addr
BlockBytes(e) == SubSeq(e.msg, 5, Len(e.msg))

\* the image is the image of a finished download, which is being uploaded
\* or is about to be
RoundTrip ==
    /\ driver = "uv5r" /\ data # <<>>
    /\ (op = "in" /\ pc = "done") \/ op = "out"

\* C29 as stated: in a download followed by an upload of the unmodified image, every
\* block read from a device address a of the main or the auxiliary block is
\* in the image at offset a + 8, or 0x1808 + (a - 0x1EC0), and every block
\* the upload stores goes to the address its bytes were read from; a
\* finished upload has stored the main and the auxiliary block, each
\* address once
C29_RoundTrip ==
    RoundTrip =>
        /\ mmap = data
        /\ \A k \in 1..Len(reads) :
              (reads[k].ok /\ InImage(reads[k].start) /\ InImage(reads[k].start + reads[k].size - 1)) =>
                  reads[k].resp.chunk =
                      Slice(mmap, ImageOffset(reads[k].start),
                            ImageOffset(reads[k].start) + reads[k].size)
        /\ \A sb \in {StoredBlocks} :
              /\ \A k \in 1..Len(sb) : \A a \in {BlockAddr(sb[k])} : \A block \in {BlockBytes(sb[k])} :
                    /\ InImage(a)
                    /\ Len(block) = UpBlockSize
                    /\ block = Slice(mmap, ImageOffset(a), ImageOffset(a) + UpBlockSize)
                    /\ \E r \in 1..Len(reads) :
                          /\ reads[r].ok
                          /\ reads[r].start <= a
                          /\ a + UpBlockSize <= reads[r].start + reads[r].size
                          /\ block = SubSeq(reads[r].resp.chunk, a - reads[r].start + 1,
                                            a - reads[r].start + UpBlockSize)
              /\ (op = "out" /\ pc = "done") =>
                    [k \in 1..Len(sb) |-> BlockAddr(sb[k])] =
                        Range(0, MainSize, UpBlockSize) \o Range(AuxStart, AuxEnd, UpBlockSize)

\* the same for the images whose first 8 bytes are a whole answer to the
\* identification
RoundTripWithFullIdent ==
    Len(mmap) = AuxOffset + (AuxEnd - AuxStart) => C29_RoundTrip

\* an image of 0x1948 bytes was downloaded and uploaded to the end
RoundTripFinished ==
    /\ RoundTrip /\ op = "out" /\ pc = "done" /\ err = ""
    /\ Len(mmap) = AuxOffset + (AuxEnd - AuxStart)
    /\ Len(StoredBlocks) = ((MainSize + (AuxEnd - AuxStart)) \div UpBlockSize)

\* the jobs of the exchange that were executed
ExecutedOf(func) == SelectSeq(rtExecuted, LAMBDA e : e.func = func)

\* C30: every get_memory job of an exchange is executed before every
\* set_memory job of it, and when both set_memory jobs were executed the
\* radio holds at a the channel that was at b and at b the channel that was
\* at a, the other locations being as they were
C30_ExchangeSwaps ==
    /\ \A i, j \in 1..Len(rtExecuted) :
          (rtExecuted[i].func = "get_memory" /\ rtExecuted[j].func = "set_memory") => i < j
    /\ Len(ExecutedOf("set_memory")) = 2 =>
          rtRadio = [rtRadio0 EXCEPT ![rtLocA] = rtRadio0[rtLocB], ![rtLocB] = rtRadio0[rtLocA]]
    /\ Len(ExecutedOf("set_memory")) < 2 => \A n \in DOMAIN rtRadio :
          n \notin {rtLocA, rtLocB} => rtRadio[n] = rtRadio0[n]

\* an exchange of two different channels has ended, behind a job that was
\* in the queue before it and with the run lock taken from outside on the way
C30_Witness ==
    /\ Len(ExecutedOf("set_memory")) = 2 /\ Len(ExecutedOf("status")) > 0
    /\ rtLocks > 0
    /\ rtRadio0[rtLocA] # rtRadio0[rtLocB]
    /\ rtRadio[rtLocA] = rtRadio0[rtLocB] /\ rtRadio[rtLocB] = rtRadio0[rtLocA]

=============================================================================
